---- MODULE Spec2Model ----
(***************************************************************************)
(* Video-Tagger: the file filter of FileSortFilterProxyModel, the filter   *)
(* bounds MainWindow.load_files derives, the sort of the file view and the *)
(* SQLite store of Database, as state machines.                            *)
(*                                                                         *)
(* Strings are sequences of one-character strings, so that basename,       *)
(* split, startswith, commonpath, re.search and format_size are computed   *)
(* character by character.  Points in time are integer ticks; two ticks    *)
(* make one millisecond, the resolution of a QDateTime.                    *)
(***************************************************************************)
EXTENDS Integers, Sequences, FiniteSets, TLC

VARIABLES
    files,          \* FileListModel.files: the loaded collection, a sequence of VideoFile
    _filter,        \* the FileFilter object FilterWidget and the proxy model share
    _re,            \* FileSortFilterProxyModel._re: the compiled name pattern
    _current_file,  \* FileSortFilterProxyModel._current_file: the pinned file or None
    visible,        \* source rows the proxy model mapped at its last (re)filtering
    date_min_edit,  \* FilterWidget.date_min_edit.dateTime(), in ticks
    date_max_edit,  \* FilterWidget.date_max_edit.dateTime(), in ticks
    edits,          \* number of user operations since construction
    sort_column,    \* QSortFilterProxyModel.sortColumn()
    sort_order,     \* QSortFilterProxyModel.sortOrder()
    view,           \* the rows of the file view, top to bottom
    db_files,       \* table files: set of rows
    db_tags,        \* table tags: set of rows
    db_fht,         \* table file_has_tag: bag of rows (no key, no constraint)
    seq_files,      \* sqlite_sequence of files: the largest id AUTOINCREMENT has given
    seq_tags,       \* sqlite_sequence of tags
    conn,           \* per connection: the add_file call in progress, if any
    last,           \* the last Database call that returned: name, arguments, result
    db_settings,    \* table settings: key |-> value
    settings,       \* Database.settings: the cache
    settings_loaded, \* Database.settings_loaded
    tl_tags,        \* TagListModel.tags: tag name |-> count
    tag_names,      \* TagListModel.tag_names
    checked_tags,   \* TagListModel.checked_tags: the set object it refers to
    selected_file,  \* MainWindow.selected_file and TagListModel._current_file
    tags_whitelist_widget, \* FilterWidget.tags_whitelist_widget.tags
    tags_blacklist_widget, \* FilterWidget.tags_blacklist_widget.tags
    objects,        \* the FileFilter objects made so far: reference |-> fields
    fw_filter,      \* FilterWidget._filter: a reference
    px_filter,      \* FileSortFilterProxyModel._filter: a reference
    received,       \* what filter_changed handed the proxy model, oldest first
    scan_worker,    \* AddFilesDialog.scan_worker: the walk, the flag, the position of run
    scan_worker_thread, \* AddFilesDialog.scan_worker_thread: the QThread
    posted,         \* queued signal deliveries waiting in the main thread's event queue
    dialog          \* AddFilesDialog: found_files, the buttons, the handler in progress

vars == <<files, _filter, _re, _current_file, visible, date_min_edit, date_max_edit,
          edits, sort_column, sort_order, view,
          db_files, db_tags, db_fht, seq_files, seq_tags, conn, last,
          db_settings, settings, settings_loaded,
          tl_tags, tag_names, checked_tags, selected_file,
          tags_whitelist_widget, tags_blacklist_widget,
          objects, fw_filter, px_filter, received,
          scan_worker, scan_worker_thread, posted, dialog>>

viewVars  == <<files, _filter, _re, _current_file, visible, date_min_edit,
               date_max_edit, edits>>
sortVars  == <<sort_column, sort_order, view>>
storeVars == <<db_files, db_tags, db_fht, seq_files, seq_tags, conn, last>>
settingsVars == <<db_settings, settings, settings_loaded>>
tagVars   == <<tl_tags, tag_names, checked_tags, selected_file>>
listVars  == <<tags_whitelist_widget, tags_blacklist_widget>>
objVars   == <<objects, fw_filter, px_filter, received>>
scanVars  == <<scan_worker, scan_worker_thread, posted, dialog>>

-----------------------------------------------------------------------------
(* Bounds of the model *)

MaxFiles == 2

MaxEdits == 2

-----------------------------------------------------------------------------
(* Python values *)

None == -1

sys_maxsize == 999999

datetime_min == 0

datetime_max == 40

Max(S) == CHOOSE x \in S : \A y \in S : y <= x

Min(S) == CHOOSE x \in S : \A y \in S : x <= y

\* Characters in code point order (str comparison compares code points).
CharOrder ==
    <<" ", ".", "/", "0", "1", "2", "3", "4", "5", "6", "7", "8", "9",
      "A", "B", "K", "M", "a", "b", "e", "i", "k", "m", "p", "s", "t", "v", "w", "y">>

Code(c) == CHOOSE i \in 1..Len(CharOrder) : CharOrder[i] = c

\* str < str
StrLess(a, b) ==
    \E i \in 1..(Len(b)) :
        /\ i <= Len(a) + 1
        /\ SubSeq(a, 1, i - 1) = SubSeq(b, 1, i - 1)
        /\ \/ i = Len(a) + 1
           \/ Code(a[i]) < Code(b[i])

\* str.lower() of one character
Lower(c) ==
    CASE c = "A" -> "a"
      [] c = "B" -> "b"
      [] c = "K" -> "k"
      [] c = "M" -> "m"
      [] OTHER   -> c

\* str.startswith
startswith(s, prefix) ==
    /\ Len(prefix) <= Len(s)
    /\ SubSeq(s, 1, Len(prefix)) = prefix

\* str.split(sep) for a one-character separator
RECURSIVE split(_, _)
split(s, sep) ==
    LET at == {i \in 1..Len(s) : s[i] = sep}
    IN  IF at = {} THEN <<s>>
        ELSE <<SubSeq(s, 1, Min(at) - 1)>> \o split(SubSeq(s, Min(at) + 1, Len(s)), sep)

\* sep.join(parts)
RECURSIVE join(_, _)
join(parts, sep) ==
    IF parts = <<>> THEN <<>>
    ELSE IF Len(parts) = 1 THEN parts[1]
    ELSE parts[1] \o <<sep>> \o join(Tail(parts), sep)

\* os.path.basename (posixpath): what follows the last "/"
basename(path) ==
    LET at == {i \in 1..Len(path) : path[i] = "/"}
    IN  IF at = {} THEN path ELSE SubSeq(path, Max(at) + 1, Len(path))

\* os.path.commonpath (posixpath) of a non-empty sequence of paths that are
\* all absolute: the longest common prefix of their component lists.
commonpath(paths) ==
    LET comps(p) == SelectSeq(split(p, "/"), LAMBDA c : c # <<>> /\ c # <<".">>)
        first    == comps(paths[1])
        agree(k) == \A i \in 1..Len(paths) :
                        /\ Len(comps(paths[i])) >= k
                        /\ SubSeq(comps(paths[i]), 1, k) = SubSeq(first, 1, k)
        n        == Max({k \in 0..Len(first) : agree(k)})
    IN  <<"/">> \o join(SubSeq(first, 1, n), "/")

-----------------------------------------------------------------------------
(* VideoFile *)

\* VideoFile.name
name(file) == basename(file.path)

\* VideoFile.name_prefix: name.split('.')[0]
name_prefix(file) == split(name(file), ".")[1]

\* the absent VideoFile (Python None) as a record, so that == compares fields
NoFile == [id |-> 0, path |-> <<>>, size |-> 0, date_modified |-> 0,
           rating |-> None, tags |-> {}]

-----------------------------------------------------------------------------
(* FileFilter and the filter of FileSortFilterProxyModel *)

\* FileFilter(): the dataclass defaults
FileFilter ==
    [name_regex |-> <<>>, name_regex_case_sensitive |-> FALSE, path |-> <<>>,
     rating |-> <<0, 5>>, tags_whitelist |-> {}, tags_blacklist |-> {},
     size |-> <<0, sys_maxsize>>, date |-> <<datetime_min, datetime_max>>]

\* re.compile(pattern, re.IGNORECASE or re.NOFLAG); the patterns of the model
\* are literal letters (no metacharacters)
re_compile(pattern, ignorecase) == [pattern |-> pattern, ignorecase |-> ignorecase]

\* re.search(string) is not None
re_search(re, string) ==
    LET same(a, b) == IF re.ignorecase THEN Lower(a) = Lower(b) ELSE a = b
    IN  \E i \in 0..(Len(string) - Len(re.pattern)) :
            \A k \in 1..Len(re.pattern) : same(string[i + k], re.pattern[k])

\* file_object.rating or 0 (a mutant: the rating as stored)
rating_as_stored(file_object) == file_object.rating

rating_or_0(file_object) ==
    IF file_object.rating = None \/ file_object.rating = 0 THEN 0 ELSE file_object.rating

\* file_object == self._current_file: dataclass equality, field by field
\* (a mutant: no file is ever taken for the current one)
is_never_current(file_object, current_file) == FALSE

is_current_file(file_object, current_file) == file_object = current_file

\* self._re.search(file_object.name_prefix) is not None
name_check(file_object, re) == re_search(re, name_prefix(file_object))

\* not (filter.path and not path.startswith(filter.path))
path_check(file_object, f) == f.path = <<>> \/ startswith(file_object.path, f.path)

\* not (rating < filter.rating[0] or rating > filter.rating[1])
rating_check(file_object, f) ==
    ~(rating_or_0(file_object) < f.rating[1] \/ rating_or_0(file_object) > f.rating[2])

\* not (whitelist and not whitelist.issubset(tags))
\* (a mutant: one whitelisted tag is enough)
whitelist_any(file_object, f) ==
    f.tags_whitelist = {} \/ (f.tags_whitelist \cap file_object.tags) # {}

whitelist_check(file_object, f) ==
    f.tags_whitelist = {} \/ f.tags_whitelist \subseteq file_object.tags

\* not (blacklist and blacklist.intersection(tags))
blacklist_check(file_object, f) ==
    f.tags_blacklist = {} \/ (f.tags_blacklist \cap file_object.tags) = {}

\* not (size < filter.size[0] or size > filter.size[1])
\* (a mutant: the upper bound is exclusive)
size_below_max(file_object, f) ==
    ~(file_object.size < f.size[1] \/ file_object.size >= f.size[2])

size_check(file_object, f) ==
    ~(file_object.size < f.size[1] \/ file_object.size > f.size[2])

\* not (date_modified < filter.date[0] or date_modified > filter.date[1])
date_check(file_object, f) ==
    ~(file_object.date_modified < f.date[1] \/ file_object.date_modified > f.date[2])

\* the body of filterAcceptsRow for one file object: the early returns in
\* the order of the code
accepts(file_object, current_file, re, f) ==
    IF is_current_file(file_object, current_file) THEN TRUE
    ELSE IF ~name_check(file_object, re) THEN FALSE
    ELSE IF ~path_check(file_object, f) THEN FALSE
    ELSE IF ~rating_check(file_object, f) THEN FALSE
    ELSE IF ~whitelist_check(file_object, f) THEN FALSE
    ELSE IF ~blacklist_check(file_object, f) THEN FALSE
    ELSE IF ~size_check(file_object, f) THEN FALSE
    ELSE IF ~date_check(file_object, f) THEN FALSE
    ELSE TRUE

\* FileSortFilterProxyModel.filterAcceptsRow in the current state
filterAcceptsRow(source_row) == accepts(files[source_row], _current_file, _re, _filter)

\* The window state as one value, so that a handler is a chain of calls.
Window ==
    [files |-> files, _filter |-> _filter, _re |-> _re, _current_file |-> _current_file,
     visible |-> visible, date_min_edit |-> date_min_edit, date_max_edit |-> date_max_edit]

\* (a mutant: the rows are not evaluated again)
keepRows(w) == w

\* QSortFilterProxyModel.invalidateFilter: every source row is evaluated again
invalidateFilter(w) ==
    [w EXCEPT !.visible = {r \in 1..Len(w.files) :
                              accepts(w.files[r], w._current_file, w._re, w._filter)}]

\* FileSortFilterProxyModel.filter setter, the slot of FilterWidget.filter_changed
proxy_set_filter(w, f) ==
    invalidateFilter([w EXCEPT !._filter = f,
                               !._re = re_compile(f.name_regex, ~f.name_regex_case_sensitive)])

\* Ui.Tools.to_QDateTime: millisecond resolution, an invalid QDateTime
\* (None here) outside the years 1971..2037 (ticks 11..29)
to_QDateTime(dt) == IF 10 < dt /\ dt < 30 THEN dt - (dt % 2) ELSE None

\* Ui.Tools.to_datetime
to_datetime(q) == q

-----------------------------------------------------------------------------
(* FilterWidget: the setters; each change is emitted with filter_changed,  *)
(* which MainWindow connects to the proxy model's set_filter               *)

\* FilterWidget.name_regex setter
set_name_regex(w, name_regex) ==
    IF name_regex # w._filter.name_regex
    THEN proxy_set_filter(w, [w._filter EXCEPT !.name_regex = name_regex])
    ELSE w

\* FilterWidget.name_regex_case_sensitive setter
set_name_regex_case_sensitive(w, flag) ==
    IF flag # w._filter.name_regex_case_sensitive
    THEN proxy_set_filter(w, [w._filter EXCEPT !.name_regex_case_sensitive = flag])
    ELSE w

\* FilterWidget.path setter
set_path(w, path) ==
    IF path # w._filter.path
    THEN proxy_set_filter(w, [w._filter EXCEPT !.path = path])
    ELSE w

\* FilterWidget.min_rating setter
set_min_rating(w, min_rating) ==
    IF min_rating # w._filter.rating[1]
    THEN proxy_set_filter(w, [w._filter EXCEPT !.rating = <<min_rating, w._filter.rating[2]>>])
    ELSE w

\* FilterWidget.max_rating setter
set_max_rating(w, max_rating) ==
    IF max_rating # w._filter.rating[2]
    THEN proxy_set_filter(w, [w._filter EXCEPT !.rating = <<w._filter.rating[1], max_rating>>])
    ELSE w

\* FilterWidget.rating setter
set_rating(w, rating) == set_max_rating(set_min_rating(w, rating[1]), rating[2])

\* FilterWidget.tags_whitelist setter
set_tags_whitelist(w, tags) ==
    IF w._filter.tags_whitelist # tags
    THEN proxy_set_filter(w, [w._filter EXCEPT !.tags_whitelist = tags])
    ELSE w

\* FilterWidget.tags_blacklist setter
set_tags_blacklist(w, tags) ==
    IF w._filter.tags_blacklist # tags
    THEN proxy_set_filter(w, [w._filter EXCEPT !.tags_blacklist = tags])
    ELSE w

\* FilterWidget.min_size setter
set_min_size(w, min_size) ==
    IF min_size # w._filter.size[1]
    THEN proxy_set_filter(w, [w._filter EXCEPT !.size = <<min_size, w._filter.size[2]>>])
    ELSE w

\* FilterWidget.max_size setter
set_max_size(w, max_size) ==
    IF max_size # w._filter.size[2]
    THEN proxy_set_filter(w, [w._filter EXCEPT !.size = <<w._filter.size[1], max_size>>])
    ELSE w

\* FilterWidget.size setter
set_size(w, size) == set_max_size(set_min_size(w, size[1]), size[2])

\* FilterWidget.min_date setter.  date_min_edit.setDateTime ignores an invalid
\* QDateTime; when it changes the widget, dateTimeChanged runs
\* set_min_date(to_datetime(date_min_edit.dateTime())) before the setter goes
\* on, so the bound ends up at the widget's millisecond resolution.
set_min_date(w, min_date) ==
    IF min_date # w._filter.date[1]
    THEN LET q       == to_QDateTime(min_date)
             changed == q # None /\ q # w.date_min_edit
             echoed  == IF changed THEN to_datetime(q) ELSE min_date
             w1      == IF changed THEN [w EXCEPT !.date_min_edit = q] ELSE w
         IN  proxy_set_filter(w1, [w._filter EXCEPT !.date = <<echoed, w._filter.date[2]>>])
    ELSE w

\* (a mutant of the max_date setter: the widget's value comes back through
\* to_datetime, as it does for the lower bound)
set_max_date_echoed(w, max_date) ==
    IF max_date # w._filter.date[2]
    THEN LET q       == to_QDateTime(max_date)
             changed == q # None /\ q # w.date_max_edit
             echoed  == IF changed THEN to_datetime(q) ELSE max_date
             w1      == IF changed THEN [w EXCEPT !.date_max_edit = q] ELSE w
         IN  proxy_set_filter(w1, [w._filter EXCEPT !.date = <<w._filter.date[1], echoed>>])
    ELSE w

\* FilterWidget.max_date setter.  dateTimeChanged of date_max_edit is connected
\* to set_max_date itself and hands it the widget's QDateTime, which compares
\* equal to the bound just stored, so the bound keeps the value given.
set_max_date(w, max_date) ==
    IF max_date # w._filter.date[2]
    THEN LET q       == to_QDateTime(max_date)
             changed == q # None /\ q # w.date_max_edit
             w1      == IF changed THEN [w EXCEPT !.date_max_edit = q] ELSE w
         IN  proxy_set_filter(w1, [w._filter EXCEPT !.date = <<w._filter.date[1], max_date>>])
    ELSE w

\* FilterWidget.date setter
set_date(w, date) == set_max_date(set_min_date(w, date[1]), date[2])

-----------------------------------------------------------------------------
(* MainWindow *)

\* FileListModel.set_files: the model is reset and the proxy model maps the
\* rows of the new list under the filter it has
set_files(w, fs) == invalidateFilter([w EXCEPT !.files = fs])

\* MainWindow.load_files for the list Database.get_files() returned
load_files(w, fs) ==
    LET w1      == set_files(w, fs)
        rows    == 1..Len(fs)
        ratings == {rating_or_0(fs[r]) : r \in rows}
        sizes   == {fs[r].size : r \in rows}
        dates   == {fs[r].date_modified : r \in rows}
        common_path == commonpath([r \in rows |-> fs[r].path])
    IN  IF fs # <<>>
        THEN set_date(set_size(set_rating(set_path(w1, common_path),
                                          <<Min(ratings \cup {5}), Max(ratings \cup {0})>>),
                               <<Min(sizes \cup {sys_maxsize}), Max(sizes \cup {0})>>),
                      <<Min(dates \cup {datetime_max}), Max(dates \cup {datetime_min})>>)
        ELSE set_date(set_size(set_rating(set_path(w1, <<>>), <<0, 5>>),
                               <<0, sys_maxsize>>),
                      <<datetime_min, datetime_max>>)

\* (a mutant: the current_file setter evaluates the rows again)
on_file_selected_refiltered(w, file) == invalidateFilter([w EXCEPT !._current_file = file])

\* MainWindow.on_file_selected: the proxy model's current_file setter stores
\* the file and does not invalidate the filter
on_file_selected(w, file) == [w EXCEPT !._current_file = file]

-----------------------------------------------------------------------------
(* The file view: inputs *)

\* The rows the store may hold, in get_files order (ORDER BY path).
Library ==
    << [id |-> 3, path |-> <<"/","v","/","a",".","b",".","m","p","4">>,
        size |-> 100, date_modified |-> 13, rating |-> None, tags |-> {}],
       [id |-> 1, path |-> <<"/","v","/","s","/","A","b",".","m","k","v">>,
        size |-> 50000, date_modified |-> 14, rating |-> 3, tags |-> {"A", "B"}],
       [id |-> 4, path |-> <<"/","v","/","s","/","b",".","a","v","i">>,
        size |-> 500, date_modified |-> 21, rating |-> 5, tags |-> {"A"}],
       [id |-> 2, path |-> <<"/","w","/","a",".","m","p","4">>,
        size |-> 2000, date_modified |-> 12, rating |-> 1, tags |-> {"C"}],
       [id |-> 5, path |-> <<"/","w","/","b","a",".","m","k","v">>,
        size |-> 100000, date_modified |-> 28, rating |-> None, tags |-> {"B"}] >>

LibraryIds == {Library[i].id : i \in 1..Len(Library)}

\* the lists get_files can return: at most MaxFiles rows of the library
Collections ==
    {SelectSeq(Library, LAMBDA f : f.id \in S) :
        S \in {T \in SUBSET LibraryIds : Cardinality(T) <= MaxFiles}}

NamePatterns == {<<>>, <<"b">>, <<"A">>}

PathPrefixes == {<<>>, <<"/","v","/","s">>, <<"/","w">>}

RatingRanges == {<<0, 5>>, <<1, 5>>, <<2, 5>>, <<0, 0>>}

Whitelists == {{}, {"A"}, {"A", "C"}}

Blacklists == {{}, {"B"}, {"C"}}

SizeRanges == {<<0, sys_maxsize>>, <<0, 200>>, <<500, 50000>>}

DateRanges == {<<datetime_min, datetime_max>>, <<13, 14>>, <<12, 13>>}

-----------------------------------------------------------------------------
(* The file view: specification SpecView *)

\* the window right after the widgets are built, before load_files:
\* re.compile('') and a QDateTimeEdit at its default 2000-01-01 (tick 20)
Constructed ==
    [files |-> <<>>, _filter |-> FileFilter, _re |-> re_compile(<<>>, FALSE),
     _current_file |-> NoFile, visible |-> {}, date_min_edit |-> 20, date_max_edit |-> 20]

\* the sort and the store at rest
SortIdle == sort_column = 0 /\ sort_order = "Ascending" /\ view = <<>>

StoreIdle ==
    /\ db_files = {} /\ db_tags = {} /\ db_fht = [row \in {} |-> 0]
    /\ seq_files = 0 /\ seq_tags = 0
    /\ conn = <<>> /\ last = [op |-> "none"]

\* Database.__init__: self.settings = {}, self.settings_loaded = False
SettingsIdle == db_settings = <<>> /\ settings = <<>> /\ settings_loaded = FALSE

\* before load_tags
TagsIdle ==
    /\ tl_tags = <<>> /\ tag_names = <<>>
    /\ checked_tags = [of |-> 0, own |-> {}] /\ selected_file = 0

\* the tag lists of a FilterWidget right after construction
ListsIdle == tags_whitelist_widget = {} /\ tags_blacklist_widget = {}

\* no FileFilter object made yet
ObjectsIdle == objects = <<>> /\ fw_filter = 0 /\ px_filter = 0 /\ received = <<>>

\* AddFilesDialog.__init__: scan_worker = None, scan_worker_thread = None
NoWorker == [run |-> 0, entries |-> <<>>, i |-> 1, abort_scan |-> FALSE,
             pc |-> "none", emitted |-> <<>>, observed_at |-> None]

NoThread == [running |-> FALSE, quit |-> FALSE]

\* AddFilesDialog.init_ui: the buttons as they are enabled.  aborted is the
\* run abort_scan has returned for, late whether a notification of that
\* run was delivered afterwards, terminated whether the thread had ended
\* whenever abort_scan returned
NewDialog ==
    [found_files |-> {}, scan_directory_button |-> TRUE, abort_scan_button |-> FALSE,
     accept_button |-> TRUE, status_label |-> "", pc |-> "idle", scans |-> 0,
     aborted |-> 0, late |-> FALSE, terminated |-> TRUE]

ScanIdle ==
    /\ scan_worker = NoWorker /\ scan_worker_thread = NoThread
    /\ posted = <<>> /\ dialog = NewDialog

ElsewhereIdle == ListsIdle /\ ObjectsIdle /\ ScanIdle

ViewIdle ==
    /\ files = <<>> /\ _filter = FileFilter /\ _re = re_compile(<<>>, FALSE)
    /\ _current_file = NoFile /\ visible = {}
    /\ date_min_edit = 20 /\ date_max_edit = 20 /\ edits = 0

\* the handler's result becomes the next state; a filter edit or reload
\* that changed something counts as one user operation
Becomes(w, counted) ==
    /\ files' = w.files
    /\ _filter' = w._filter
    /\ _re' = w._re
    /\ _current_file' = w._current_file
    /\ visible' = w.visible
    /\ date_min_edit' = w.date_min_edit
    /\ date_max_edit' = w.date_max_edit
    /\ edits' = IF counted /\ w # Window THEN edits + 1 ELSE edits
    /\ UNCHANGED <<sortVars, storeVars, settingsVars, tagVars, listVars, objVars, scanVars>>

\* MainWindow.__init__: the widgets are built and load_files runs
InitView ==
    /\ \E fs \in Collections :
        LET w == load_files(Constructed, fs)
        IN  /\ files = w.files /\ _filter = w._filter /\ _re = w._re
            /\ _current_file = w._current_file /\ visible = w.visible
            /\ date_min_edit = w.date_min_edit /\ date_max_edit = w.date_max_edit
    /\ edits = 0
    /\ SortIdle
    /\ StoreIdle
    /\ SettingsIdle /\ TagsIdle /\ ElsewhereIdle

EditNameRegex ==
    \E p \in NamePatterns : edits < MaxEdits /\ Becomes(set_name_regex(Window, p), TRUE)

EditCaseSensitive ==
    \E b \in BOOLEAN : edits < MaxEdits /\ Becomes(set_name_regex_case_sensitive(Window, b), TRUE)

EditPath ==
    \E p \in PathPrefixes : edits < MaxEdits /\ Becomes(set_path(Window, p), TRUE)

EditRating ==
    \E r \in RatingRanges : edits < MaxEdits /\ Becomes(set_rating(Window, r), TRUE)

EditWhitelist ==
    \E t \in Whitelists : edits < MaxEdits /\ Becomes(set_tags_whitelist(Window, t), TRUE)

EditBlacklist ==
    \E t \in Blacklists : edits < MaxEdits /\ Becomes(set_tags_blacklist(Window, t), TRUE)

EditSize ==
    \E r \in SizeRanges : edits < MaxEdits /\ Becomes(set_size(Window, r), TRUE)

EditDate ==
    \E r \in DateRanges : edits < MaxEdits /\ Becomes(set_date(Window, r), TRUE)

\* the user selects a row the view shows, or clears the selection
SelectFile ==
    \E file \in {files[r] : r \in visible} \cup {NoFile} :
        /\ file # _current_file
        /\ Becomes(on_file_selected(Window, file), FALSE)

\* MainWindow.show_add_files_dialog accepted: rows were added to the store
\* and load_files runs again
ReloadFiles ==
    \E fs \in Collections :
        /\ edits < MaxEdits
        /\ {files[r].id : r \in 1..Len(files)} \subseteq {fs[r].id : r \in 1..Len(fs)}
        /\ Len(fs) > Len(files)
        /\ Becomes(load_files(Window, fs), TRUE)

NextView ==
    \/ EditNameRegex
    \/ EditCaseSensitive
    \/ EditPath
    \/ EditRating
    \/ EditWhitelist
    \/ EditBlacklist
    \/ EditSize
    \/ EditDate
    \/ SelectFile
    \/ ReloadFiles

SpecView == InitView /\ [][NextView]_vars

-----------------------------------------------------------------------------
(* Properties of the filter, stated on the fields of the criteria and of   *)
(* the file, checked under SpecView                                        *)

Rows == 1..Len(files)

Pinned(r) == files[r] = _current_file

\* the source rows filterAcceptsRow accepts in the current state
Accepted == {r \in Rows : filterAcceptsRow(r)}

\* p occurs in s as a contiguous run of characters
Contains(s, p) == \E i \in 0..(Len(s) - Len(p)) : SubSeq(s, i + 1, i + Len(p)) = p

Fold(s) == [i \in 1..Len(s) |-> Lower(s[i])]

\* the pattern of the criteria is found in the text, ignoring case unless
\* the criteria are case-sensitive
PatternFound(text) ==
    IF _filter.name_regex_case_sensitive
    THEN Contains(text, _filter.name_regex)
    ELSE Contains(Fold(text), Fold(_filter.name_regex))

\* the name with its last extension segment removed
Stem(file) ==
    LET n  == basename(file.path)
        at == {i \in 1..Len(n) : n[i] = "."}
    IN  IF at = {} THEN n ELSE SubSeq(n, 1, Max(at) - 1)

RatingOf(file) == IF file.rating = None THEN 0 ELSE file.rating

NameHolds(file) == PatternFound(name_prefix(file))

PathHolds(file) ==
    \/ _filter.path = <<>>
    \/ /\ Len(file.path) >= Len(_filter.path)
       /\ \A i \in 1..Len(_filter.path) : file.path[i] = _filter.path[i]

RatingHolds(file) ==
    _filter.rating[1] <= RatingOf(file) /\ RatingOf(file) <= _filter.rating[2]

WhitelistHolds(file) == \A t \in _filter.tags_whitelist : t \in file.tags

BlacklistHolds(file) == \A t \in _filter.tags_blacklist : t \notin file.tags

SizeHolds(file) == _filter.size[1] <= file.size /\ file.size <= _filter.size[2]

DateHolds(file) ==
    _filter.date[1] <= file.date_modified /\ file.date_modified <= _filter.date[2]

\* C1: the file that is the proxy's current (pinned) file is accepted under
\* every criteria the filter holds.
C1_PinnedFileAccepted == \A r \in Rows : Pinned(r) => filterAcceptsRow(r)

\* C1 witness: the pinned file fails the criteria and is accepted all the same.
C1_Witness ==
    \E r \in Rows :
        /\ Pinned(r)
        /\ ~accepts(files[r], NoFile, _re, _filter)
        /\ filterAcceptsRow(r)

F1 == Library[1]

F2 == Library[2]

\* the criteria that do not bear on the scenario of C2 let F1 and F2 pass
ScenarioSetting ==
    /\ files = <<F1, F2>>
    /\ _current_file \notin {F1, F2}
    /\ _filter.name_regex = <<>>
    /\ _filter.tags_whitelist = {} /\ _filter.tags_blacklist = {}
    /\ PathHolds(F1) /\ PathHolds(F2)
    /\ DateHolds(F1) /\ DateHolds(F2)

\* C2: a file that is not pinned is accepted exactly when the name, path,
\* rating, whitelist, blacklist, size and date conditions hold together; with
\* F1 (unrated, size 100) and F2 (rating 3, size 50000), rating [2,5] leaves
\* only F2, size [0,200] only F1, and both together leave none.
C2_ConjunctionOfChecks ==
    /\ \A r \in Rows :
        ~Pinned(r) =>
            (filterAcceptsRow(r) <=>
                /\ NameHolds(files[r])
                /\ PathHolds(files[r])
                /\ RatingHolds(files[r])
                /\ WhitelistHolds(files[r])
                /\ BlacklistHolds(files[r])
                /\ SizeHolds(files[r])
                /\ DateHolds(files[r]))
    /\ ScenarioSetting =>
        /\ (_filter.rating = <<2, 5>> /\ SizeHolds(F1) /\ SizeHolds(F2)) => Accepted = {2}
        /\ (_filter.size = <<0, 200>> /\ RatingHolds(F1) /\ RatingHolds(F2)) => Accepted = {1}
        /\ (_filter.rating = <<2, 5>> /\ _filter.size = <<0, 200>>) => Accepted = {}

\* C2 witness: F1 and F2 under rating [2,5] and size [0,200] together, none shown.
C2_Witness ==
    /\ ScenarioSetting
    /\ _filter.rating = <<2, 5>>
    /\ _filter.size = <<0, 200>>
    /\ Accepted = {}

\* C3: with an empty name pattern and empty tag lists every file of the
\* collection is accepted, under the FileFilter defaults as well as under the
\* path, rating, size and date bounds load_files derives from the collection.
C3_IdentityFilter ==
    /\ \A r \in Rows : accepts(files[r], NoFile, re_compile(<<>>, TRUE), FileFilter)
    /\ edits = 0 => \A r \in Rows : accepts(files[r], NoFile, _re, _filter)
    /\ (_filter.name_regex = <<>> /\ _filter.tags_whitelist = {} /\ _filter.tags_blacklist = {})
        => LET w == load_files(Window, files)
           IN  \A r \in Rows : accepts(w.files[r], NoFile, w._re, w._filter)

\* C3 witness: right after load_files of two files the bounds are the derived
\* ones (none is a default) and both files are accepted.
C3_Witness ==
    /\ edits = 0
    /\ Len(files) = 2
    /\ _filter.path # <<>>
    /\ _filter.rating # <<0, 5>>
    /\ _filter.size[1] > 0 /\ _filter.size[2] < sys_maxsize
    /\ _filter.date[1] > datetime_min /\ _filter.date[2] < datetime_max
    /\ _filter.date[1] < files[1].date_modified /\ _filter.date[1] < files[2].date_modified
    /\ \A r \in Rows : accepts(files[r], NoFile, _re, _filter)

\* C4: a file that is not pinned and passes the other checks is accepted iff
\* the whitelist is empty or all its tags are on the file, and no blacklist
\* tag is on the file; tags {A,B}: whitelist {A} accepts, {A,C} rejects,
\* blacklist {B} rejects, {C} accepts.
C4_TagChecks ==
    \A r \in Rows :
        (/\ ~Pinned(r)
         /\ NameHolds(files[r]) /\ PathHolds(files[r]) /\ RatingHolds(files[r])
         /\ SizeHolds(files[r]) /\ DateHolds(files[r]))
        => /\ filterAcceptsRow(r) <=>
                /\ (_filter.tags_whitelist = {}
                    \/ \A t \in _filter.tags_whitelist : t \in files[r].tags)
                /\ ~(\E t \in _filter.tags_blacklist : t \in files[r].tags)
           /\ files[r].tags = {"A", "B"} =>
                /\ (_filter.tags_whitelist = {"A"} /\ _filter.tags_blacklist = {})
                        => filterAcceptsRow(r)
                /\ _filter.tags_whitelist = {"A", "C"} => ~filterAcceptsRow(r)
                /\ _filter.tags_blacklist = {"B"} => ~filterAcceptsRow(r)
                /\ (_filter.tags_blacklist = {"C"} /\ _filter.tags_whitelist = {})
                        => filterAcceptsRow(r)

\* C4 witness: a file tagged {A,B} that passes the other checks is rejected
\* under whitelist {A,C}.
C4_Witness ==
    \E r \in Rows :
        /\ ~Pinned(r)
        /\ files[r].tags = {"A", "B"}
        /\ NameHolds(files[r]) /\ PathHolds(files[r]) /\ RatingHolds(files[r])
        /\ SizeHolds(files[r]) /\ DateHolds(files[r])
        /\ _filter.tags_whitelist = {"A", "C"}
        /\ _filter.tags_blacklist = {}
        /\ ~filterAcceptsRow(r)

\* C5: in the rating check an absent rating counts as 0: an unrated file that
\* is not pinned and passes the other checks is rejected by [1,5] and accepted
\* by [0,5]; a rated one is accepted iff lo <= rating <= hi.
C5_AbsentRatingIsZero ==
    \A r \in Rows :
        (/\ ~Pinned(r)
         /\ NameHolds(files[r]) /\ PathHolds(files[r])
         /\ WhitelistHolds(files[r]) /\ BlacklistHolds(files[r])
         /\ SizeHolds(files[r]) /\ DateHolds(files[r]))
        => /\ files[r].rating = None =>
                /\ filterAcceptsRow(r) <=> (_filter.rating[1] <= 0 /\ 0 <= _filter.rating[2])
                /\ _filter.rating = <<1, 5>> => ~filterAcceptsRow(r)
                /\ _filter.rating = <<0, 5>> => filterAcceptsRow(r)
           /\ files[r].rating # None =>
                (filterAcceptsRow(r) <=>
                    (_filter.rating[1] <= files[r].rating /\ files[r].rating <= _filter.rating[2]))

\* C5 witness: an unrated file that passes the other checks, rejected by [1,5].
C5_Witness ==
    \E r \in Rows :
        /\ ~Pinned(r)
        /\ files[r].rating = None
        /\ NameHolds(files[r]) /\ PathHolds(files[r])
        /\ WhitelistHolds(files[r]) /\ BlacklistHolds(files[r])
        /\ SizeHolds(files[r]) /\ DateHolds(files[r])
        /\ _filter.rating = <<1, 5>>
        /\ ~filterAcceptsRow(r)

\* C7: a file that is not pinned and passes the other checks is accepted iff
\* the pattern is found in its stem, the name without its last extension
\* segment, ignoring case unless the case-sensitive flag is set.
C7_NameSearchedInStem ==
    \A r \in Rows :
        (/\ ~Pinned(r)
         /\ PathHolds(files[r]) /\ RatingHolds(files[r])
         /\ WhitelistHolds(files[r]) /\ BlacklistHolds(files[r])
         /\ SizeHolds(files[r]) /\ DateHolds(files[r]))
        => (filterAcceptsRow(r) <=> PatternFound(Stem(files[r])))

-----------------------------------------------------------------------------
(* The sort of the file view: specification SpecSort *)

MaxSortFiles == 3

\* FileListModel.horizontal_header_labels; column numbers start at 0
horizontal_header_labels == <<"Name", "Rating", "Tags", "Size", "Modified", "Duration">>

Columns == 0..(Len(horizontal_header_labels) - 1)

ColumnOf(label) ==
    CHOOSE c \in Columns : horizontal_header_labels[c + 1] = label

\* str(n) for n >= 0
RECURSIVE Digits(_)
Digits(n) ==
    LET d == <<"0", "1", "2", "3", "4", "5", "6", "7", "8", "9">>[(n % 10) + 1]
    IN  IF n < 10 THEN <<d>> ELSE Digits(n \div 10) \o <<d>>

\* humanfriendly.format_size(n): decimal units, two decimals with the trailing
\* zeros removed ("500 bytes", "2 KB", "1.5 KB", "100 KB", "50 MB")
format_size(n) ==
    LET unit   == IF n < 1000 THEN 1 ELSE IF n < 1000000 THEN 1000 ELSE 1000000
        suffix == IF n < 1000
                  THEN (IF n = 1 THEN <<" ", "b", "y", "t", "e">>
                                 ELSE <<" ", "b", "y", "t", "e", "s">>)
                  ELSE IF n < 1000000 THEN <<" ", "K", "B">> ELSE <<" ", "M", "B">>
        whole  == n \div unit
        cents  == ((n % unit) * 100) \div unit
        frac   == IF cents = 0 THEN <<>>
                  ELSE IF cents % 10 = 0 THEN <<".">> \o Digits(cents \div 10)
                  ELSE IF cents < 10 THEN <<".", "0">> \o Digits(cents)
                  ELSE <<".">> \o Digits(cents)
    IN  Digits(whole) \o frac \o suffix

\* QSortFilterProxyModel.lessThan: the DisplayRole data FileListModel.data
\* gives for the column is compared, strings by code point, numbers by value.
\* The Modified text %Y-%m-%d %H:%M:%S orders as the time does; the Duration
\* text is str(None) for every file.
base_lessThan(column, left_file, right_file) ==
    CASE column = 0 -> StrLess(name_prefix(left_file), name_prefix(right_file))
      [] column = 1 -> FALSE
      [] column = 2 -> Cardinality(left_file.tags) < Cardinality(right_file.tags)
      [] column = 3 -> StrLess(format_size(left_file.size), format_size(right_file.size))
      [] column = 4 -> left_file.date_modified < right_file.date_modified
      [] OTHER      -> FALSE

\* FileSortFilterProxyModel.lessThan
lessThan(column, left_file, right_file) ==
    IF column # 1  \* Not size column
    THEN base_lessThan(column, left_file, right_file)
    ELSE left_file.size < right_file.size

\* the stable sort of QSortFilterProxyModel: rows in source order, each put
\* behind the rows that are not greater
RECURSIVE InsertRow(_, _, _, _, _)
InsertRow(sorted, row, fs, column, order) ==
    LET before(a, b) == IF order = "Ascending"
                        THEN lessThan(column, fs[a], fs[b])
                        ELSE lessThan(column, fs[b], fs[a])
    IN  IF sorted = <<>> THEN <<row>>
        ELSE IF before(row, sorted[Len(sorted)])
             THEN InsertRow(SubSeq(sorted, 1, Len(sorted) - 1), row, fs, column, order)
                      \o <<sorted[Len(sorted)]>>
             ELSE sorted \o <<row>>

RECURSIVE SortRows(_, _, _, _)
SortRows(n, fs, column, order) ==
    IF n = 0 THEN <<>>
    ELSE InsertRow(SortRows(n - 1, fs, column, order), n, fs, column, order)

\* QTableView.sortByColumn / a click on a header section: the view shows the
\* rows of the proxy model in the new order
sortByColumn(column, order) ==
    /\ sort_column' = column
    /\ sort_order' = order
    /\ view' = SortRows(Len(files), files, column, order)

SortCollections ==
    {SelectSeq(Library, LAMBDA f : f.id \in S) :
        S \in {T \in SUBSET LibraryIds : Cardinality(T) <= MaxSortFiles}}

\* MainWindow._init_ui sorts by column 0 ascending; load_files fills the model
InitSort ==
    /\ \E fs \in SortCollections :
        LET w == load_files(Constructed, fs)
        IN  /\ files = w.files /\ _filter = w._filter /\ _re = w._re
            /\ _current_file = w._current_file /\ visible = w.visible
            /\ date_min_edit = w.date_min_edit /\ date_max_edit = w.date_max_edit
            /\ view = SortRows(Len(fs), fs, 0, "Ascending")
    /\ edits = 0
    /\ sort_column = 0
    /\ sort_order = "Ascending"
    /\ StoreIdle
    /\ SettingsIdle /\ TagsIdle /\ ElsewhereIdle

ClickHeader ==
    \E column \in Columns, order \in {"Ascending", "Descending"} :
        /\ <<column, order>> # <<sort_column, sort_order>>
        /\ sortByColumn(column, order)
        /\ UNCHANGED <<viewVars, storeVars, settingsVars, tagVars, listVars, objVars, scanVars>>

NextSort == ClickHeader

SpecSort == InitSort /\ [][NextSort]_vars

\* C6: with the view sorted by the Size column in ascending order, the files
\* appear in the order of their byte counts (500, 2000, 100000), not in the
\* order of the formatted size texts.
C6_SizeColumnSortsByBytes ==
    (sort_column = ColumnOf("Size") /\ sort_order = "Ascending")
        => \A i, j \in 1..Len(view) :
                i < j => files[view[i]].size <= files[view[j]].size

-----------------------------------------------------------------------------
(* Database: the SQLite store *)

\* largest id AUTOINCREMENT hands out in the model, per table
MaxFileId == 2

MaxTagId == 2

\* add_file: return -1  # File already exists
AlreadyExists == -1

\* a table without rows; file_has_tag is a bag: row |-> number of copies
NoRows == [row \in {} |-> 0]

\* INSERT INTO a table without key
Insert(table, row) ==
    IF row \in DOMAIN table
    THEN [table EXCEPT ![row] = @ + 1]
    ELSE [r \in DOMAIN table \cup {row} |-> IF r = row THEN 1 ELSE table[r]]

\* DELETE FROM a table without key WHERE the row is one of Unwanted
Delete(table, Unwanted) == [r \in DOMAIN table \ Unwanted |-> table[r]]

\* what create_tables creates
Created == [files |-> {}, tags |-> {}, file_has_tag |-> NoRows,
            seq_files |-> 0, seq_tags |-> 0]

\* the committed content of the database file
Tables == [files |-> db_files, tags |-> db_tags, file_has_tag |-> db_fht,
           seq_files |-> seq_files, seq_tags |-> seq_tags]

\* (a mutant: the join without its WHERE)
tags_of_any(t, file_id) ==
    {tag_row.name : tag_row \in
        {r \in t.tags : \E a \in DOMAIN t.file_has_tag : a.tag_id = r.id}}

\* SELECT name FROM tags INNER JOIN file_has_tag ... WHERE file_id = ?
tags_of(t, file_id) ==
    {tag_row.name : tag_row \in
        {r \in t.tags : \E a \in DOMAIN t.file_has_tag :
                            a.file_id = file_id /\ a.tag_id = r.id}}

\* get_file: the row of the file and the names of its tags, as a VideoFile.
\* date_modified is stored with isoformat and read with fromisoformat, which
\* keeps every tick.
get_file(t, file_id) ==
    LET row == CHOOSE r \in t.files : r.id = file_id
    IN  [id |-> file_id, path |-> row.path, size |-> row.size,
         date_modified |-> row.date_modified, duration |-> row.duration,
         rating |-> row.rating, tags |-> tags_of(t, file_id)]

\* a call of get_file: fetchone() gives None when no row has the id, and
\* unpacking None raises TypeError
get_file_call(t, file_id) ==
    IF \E r \in t.files : r.id = file_id
    THEN [ret |-> get_file(t, file_id), raised |-> "nothing"]
    ELSE [ret |-> None, raised |-> "TypeError"]

\* sqlite3 binds None, int, float, str and bytes to a "?"; for any other
\* object, a set or a list among them, execute raises
bindable(arg) == arg.kind = "str"

\* get_files_with_tags: each "?" stands for one value, so name IN (?) holds
\* for the tags whose name is that value.  An argument is an Iterable[str]:
\* a set of names, or a str, which iterates as its characters.
get_files_with_tags(t, whitelist, blacklist) ==
    IF bindable(whitelist) /\ bindable(blacklist)
    THEN LET tagged(value) ==
                 {a.file_id : a \in {row \in DOMAIN t.file_has_tag :
                     \E r \in t.tags : r.id = row.tag_id /\ r.name = value}}
             file_ids == {r.id : r \in {row \in t.files :
                             /\ row.id \in tagged(whitelist.value)
                             /\ row.id \notin tagged(blacklist.value)}}
         IN  [ret |-> {get_file(t, file_id) : file_id \in file_ids},
              raised |-> "nothing"]
    ELSE [ret |-> {}, raised |-> "ProgrammingError"]

\* (a mutant: the SELECT of add_file finds nothing)
path_never_stored(t, path) == FALSE

\* add_file: SELECT id FROM files WHERE path = ? ... fetchone() is not None
path_stored(t, path) == \E row \in t.files : row.path = path

\* (a mutant: the path column without UNIQUE)
unconstrained(t, path) == TRUE

\* files.path TEXT NOT NULL UNIQUE: an INSERT of the path is admitted
path_unique(t, path) == ~ \E row \in t.files : row.path = path

\* (a mutant: a name without definition yields the newest tag)
newest_tag_id(t, tag) ==
    LET ids == {r.id : r \in {row \in t.tags : row.name = tag}}
    IN  IF ids # {} THEN Min(ids)
        ELSE IF t.tags = {} THEN None ELSE Max({r.id : r \in t.tags})

\* get_tag_id: SELECT id FROM tags WHERE name = ?, fetchone.  SQLite scans
\* the table in rowid order, so the first row is the one of the smallest id.
get_tag_id(t, tag) ==
    LET ids == {r.id : r \in {row \in t.tags : row.name = tag}}
    IN  IF ids = {} THEN None ELSE Min(ids)

\* INSERT INTO tags (name) VALUES (?): AUTOINCREMENT never reuses an id
insert_tag(t, tag) ==
    [t EXCEPT !.tags = @ \cup {[id |-> t.seq_tags + 1, name |-> tag]},
              !.seq_tags = @ + 1]

add_tag(t, tad_name) == insert_tag(t, tad_name)

\* (a mutant: the SELECT of set_tag finds nothing)
never_attached(t, file_id, tag_id) == FALSE

\* set_tag: SELECT 1 FROM file_has_tag WHERE file_id = ? AND tag_id = ?
is_attached(t, file_id, tag_id) ==
    [file_id |-> file_id, tag_id |-> tag_id] \in DOMAIN t.file_has_tag

set_tag(t, file_id, tag) ==
    LET found  == get_tag_id(t, tag)
        t1     == IF found = None THEN insert_tag(t, tag) ELSE t
        tag_id == IF found = None THEN t1.seq_tags ELSE found
    IN  IF is_attached(t1, file_id, tag_id)
        THEN t1
        ELSE [t1 EXCEPT !.file_has_tag =
                 Insert(@, [file_id |-> file_id, tag_id |-> tag_id])]

remove_tag(t, file_id, tag) ==
    LET tag_id == get_tag_id(t, tag)
    IN  IF tag_id = None
        THEN t
        ELSE [t EXCEPT !.file_has_tag =
                 Delete(@, {[file_id |-> file_id, tag_id |-> tag_id]})]

delete_tag(t, tag) ==
    LET tag_id == get_tag_id(t, tag)
    IN  IF tag_id = None
        THEN t
        ELSE [t EXCEPT !.file_has_tag =
                           Delete(@, {a \in DOMAIN @ : a.tag_id = tag_id}),
                       !.tags = {r \in @ : r.id # tag_id}]

\* (a mutant: only the row of the file is deleted)
remove_file_row_only(t, file_id) == [t EXCEPT !.files = {r \in @ : r.id # file_id}]

remove_file(t, file_id) ==
    [t EXCEPT !.file_has_tag = Delete(@, {a \in DOMAIN @ : a.file_id = file_id}),
              !.files = {r \in @ : r.id # file_id}]

\* for tag in file.tags: self.set_tag(file_id, tag), the tags taken in the
\* order the set iterates them
RECURSIVE set_tags(_, _, _, _)
set_tags(t, file_id, order, i) ==
    IF i > Len(order)
    THEN t
    ELSE set_tags(set_tag(t, file_id, order[i]), file_id, order, i + 1)

\* add_file from the INSERT on: the row, the tags, the new id; the INSERT
\* raises sqlite3.IntegrityError when the path is already in the table
add_file_insert(t, file, order) ==
    IF path_unique(t, file.path)
    THEN LET file_id == t.seq_files + 1
             t1 == [t EXCEPT !.files = @ \cup
                        {[id |-> file_id, path |-> file.path, size |-> file.size,
                          date_modified |-> file.date_modified,
                          duration |-> file.duration, rating |-> file.rating]},
                             !.seq_files = file_id]
         IN  [t |-> set_tags(t1, file_id, order, 1), ret |-> file_id,
              raised |-> "nothing"]
    ELSE [t |-> t, ret |-> 0, raised |-> "IntegrityError"]

add_file(t, file, order) ==
    IF path_stored(t, file.path)
    THEN [t |-> t, ret |-> AlreadyExists, raised |-> "nothing"]
    ELSE add_file_insert(t, file, order)

-----------------------------------------------------------------------------
(* The store: inputs *)

DbPaths == {Library[1].path, Library[4].path}

TagNames == {"A", "B"}

\* the VideoFile objects add_file is called with
NewFiles ==
    {[id |-> -1, path |-> p, size |-> v.size, date_modified |-> 13,
      duration |-> v.duration, rating |-> v.rating, tags |-> v.tags] :
        p \in DbPaths,
        v \in {[size |-> 100, duration |-> None, rating |-> None, tags |-> {}],
               [size |-> 2000, duration |-> 7, rating |-> 3, tags |-> {"A", "B"}]}}

\* MainWindow.show_add_files_dialog: VideoFile(-1, file_path, size, date_modified)
ScannedFiles ==
    {[id |-> -1, path |-> p, size |-> n, date_modified |-> 13,
      duration |-> None, rating |-> None, tags |-> {}] :
        p \in DbPaths, n \in {100, 2000}}

\* the arguments get_files_with_tags is called with: the elements the
\* Iterable yields, and the value sqlite3 is given to bind.  A str of one
\* character yields itself.
TagArgs ==
    {[kind |-> "set", names |-> S, value |-> ""] : S \in {{}, {"A"}, {"A", "B"}}}
        \cup {[kind |-> "str", names |-> {n}, value |-> n] : n \in TagNames}

\* the orders in which a set can be iterated
Orders(S) ==
    {order \in [1..Cardinality(S) -> S] :
        {order[i] : i \in 1..Cardinality(S)} = S}

\* the tags of the set that have no definition yet
Unknown(t, names) == {n \in names : get_tag_id(t, n) = None}

-----------------------------------------------------------------------------
(* The store used through one connection: every call runs to its end *)

\* the call returns or raises, having committed t
Commits(t, call) ==
    /\ db_files' = t.files
    /\ db_tags' = t.tags
    /\ db_fht' = t.file_has_tag
    /\ seq_files' = t.seq_files
    /\ seq_tags' = t.seq_tags
    /\ last' = call
    /\ UNCHANGED <<viewVars, sortVars, settingsVars, tagVars, listVars, objVars, scanVars>>

InitDb ==
    /\ ViewIdle /\ SortIdle /\ SettingsIdle /\ TagsIdle /\ ElsewhereIdle
    /\ db_files = Created.files /\ db_tags = Created.tags
    /\ db_fht = Created.file_has_tag
    /\ seq_files = Created.seq_files /\ seq_tags = Created.seq_tags
    /\ conn = <<>>
    /\ last = [op |-> "none"]

AddFile ==
    \E file \in NewFiles : \E order \in Orders(file.tags) :
        LET r == add_file(Tables, file, order)
        IN  /\ path_stored(Tables, file.path) \/ seq_files < MaxFileId
            /\ seq_tags + Cardinality(Unknown(Tables, file.tags)) <= MaxTagId
            /\ Commits(r.t, [op |-> "add_file", file |-> file, ret |-> r.ret,
                             raised |-> r.raised, wrote |-> r.t # Tables])
            /\ UNCHANGED conn

RemoveFile ==
    \E row \in db_files :
        /\ Commits(remove_file(Tables, row.id),
                   [op |-> "remove_file", file_id |-> row.id, wrote |-> TRUE])
        /\ UNCHANGED conn

AddTag ==
    \E tad_name \in TagNames :
        /\ seq_tags < MaxTagId
        /\ Commits(add_tag(Tables, tad_name),
                   [op |-> "add_tag", tag |-> tad_name, wrote |-> TRUE])
        /\ UNCHANGED conn

SetTag ==
    \E row \in db_files, tag \in TagNames :
        LET t == set_tag(Tables, row.id, tag)
        IN  /\ seq_tags + Cardinality(Unknown(Tables, {tag})) <= MaxTagId
            /\ Commits(t, [op |-> "set_tag", file_id |-> row.id, tag |-> tag,
                           wrote |-> t # Tables])
            /\ UNCHANGED conn

RemoveTag ==
    \E row \in db_files, tag \in TagNames :
        LET t == remove_tag(Tables, row.id, tag)
        IN  /\ Commits(t, [op |-> "remove_tag", file_id |-> row.id, tag |-> tag,
                           raised |-> "nothing", wrote |-> t # Tables])
            /\ UNCHANGED conn

DeleteTag ==
    \E tag \in TagNames :
        LET t == delete_tag(Tables, tag)
        IN  /\ Commits(t, [op |-> "delete_tag", tag |-> tag, raised |-> "nothing",
                           wrote |-> t # Tables])
            /\ UNCHANGED conn

\* get_file reads; a call that raises has executed its first SELECT only
GetFile ==
    \E file_id \in 1..MaxFileId :
        LET r == get_file_call(Tables, file_id)
        IN  /\ Commits(Tables, [op |-> "get_file", file_id |-> file_id,
                                ret |-> r.ret, raised |-> r.raised,
                                wrote |-> FALSE])
            /\ UNCHANGED conn

GetFilesWithTags ==
    \E whitelist \in TagArgs, blacklist \in TagArgs :
        LET r == get_files_with_tags(Tables, whitelist, blacklist)
        IN  /\ Commits(Tables, [op |-> "get_files_with_tags",
                                whitelist |-> whitelist, blacklist |-> blacklist,
                                ret |-> r.ret, raised |-> r.raised,
                                wrote |-> FALSE])
            /\ UNCHANGED conn

NextDb ==
    \/ AddFile
    \/ RemoveFile
    \/ AddTag
    \/ SetTag
    \/ RemoveTag
    \/ DeleteTag
    \/ GetFile

SpecDb == InitDb /\ [][NextDb]_vars

\* the same store, get_files_with_tags among the calls
NextDbQuery ==
    \/ NextDb
    \/ GetFilesWithTags

SpecDbQuery == InitDb /\ [][NextDbQuery]_vars

-----------------------------------------------------------------------------
(* The store used through two connections: the SELECT and the INSERT of     *)
(* add_file are two steps.  The INSERT and its commit are one step: until   *)
(* the commit the row is invisible to the other connection, and the write   *)
(* lock keeps the other connection from writing.  A call that finds the     *)
(* database locked raises and writes nothing, so leaving the lock out only  *)
(* adds behaviours.                                                         *)

Connections == {1, 2}

Idle == [pc |-> "idle"]

InitDbConc ==
    /\ ViewIdle /\ SortIdle /\ SettingsIdle /\ TagsIdle /\ ElsewhereIdle
    /\ db_files = Created.files /\ db_tags = Created.tags
    /\ db_fht = Created.file_has_tag
    /\ seq_files = Created.seq_files /\ seq_tags = Created.seq_tags
    /\ conn = [c \in Connections |-> Idle]
    /\ last = [op |-> "none"]

\* connections that are between the SELECT and the INSERT of add_file
Inserting == {c \in Connections : conn[c].pc = "checked"}

\* add_file, lines 80-82
AddFileCheck(c) ==
    \E file \in ScannedFiles :
        /\ conn[c].pc = "idle"
        /\ IF path_stored(Tables, file.path)
           THEN /\ Commits(Tables, [op |-> "add_file", conn |-> c, file |-> file,
                                    ret |-> AlreadyExists, raised |-> "nothing"])
                /\ UNCHANGED conn
           ELSE /\ seq_files + Cardinality(Inserting) < MaxFileId
                /\ conn' = [conn EXCEPT ![c] = [pc |-> "checked", file |-> file]]
                /\ Commits(Tables, [op |-> "add_file", conn |-> c, file |-> file,
                                    ret |-> 0, raised |-> "running"])

\* add_file, lines 83-89
AddFileInsert(c) ==
    /\ conn[c].pc = "checked"
    /\ LET r == add_file_insert(Tables, conn[c].file, <<>>)
       IN  Commits(r.t, [op |-> "add_file", conn |-> c, file |-> conn[c].file,
                         ret |-> r.ret, raised |-> r.raised])
    /\ conn' = [conn EXCEPT ![c] = Idle]

RemoveFileBy(c) ==
    \E row \in db_files :
        /\ conn[c].pc = "idle"
        /\ Commits(remove_file(Tables, row.id),
                   [op |-> "remove_file", conn |-> c, file_id |-> row.id])
        /\ UNCHANGED conn

NextDbConc ==
    \E c \in Connections :
        \/ AddFileCheck(c)
        \/ AddFileInsert(c)
        \/ RemoveFileBy(c)

SpecDbConc == InitDbConc /\ [][NextDbConc]_vars

-----------------------------------------------------------------------------
(* The store: claims *)

\* the association rows of the file that lead to a tag of the name
Associations(file_id, tag) ==
    {a \in DOMAIN db_fht :
        a.file_id = file_id /\ \E r \in db_tags : r.id = a.tag_id /\ r.name = tag}

\* C8: a call of add_file with a path that is already stored returns -1,
\* raises nothing, and leaves the file rows, the tag definitions and the
\* tag associations as they were, whatever size, rating and tags the new
\* file object carries.
C8_DuplicatePathChangesNothing ==
    [][(/\ last'.op = "add_file"
        /\ \E row \in db_files : row.path = last'.file.path)
            => /\ last'.ret = -1
               /\ last'.raised = "nothing"
               /\ UNCHANGED <<db_files, db_tags, db_fht>>]_vars

\* add_file has returned -1 for a file object whose size, rating and tags
\* all differ from what is stored under its path
C8_Witness ==
    /\ last.op = "add_file"
    /\ last.ret = -1
    /\ \E row \in db_files :
        /\ row.path = last.file.path
        /\ row.size # last.file.size
        /\ row.rating # last.file.rating
        /\ last.file.tags # {}
        /\ \A tag \in last.file.tags : Associations(row.id, tag) = {}

\* C9: no two file rows have the same path, after any add_file and
\* remove_file calls of two connections, the SELECT and the INSERT of their
\* add_file calls interleaved in any way.
C9_PathsUnique ==
    \A r1, r2 \in db_files : r1.path = r2.path => r1 = r2

\* both connections had found the path absent; the INSERT of the second was
\* refused, and the path is stored once
C9_Witness ==
    /\ last.op = "add_file"
    /\ last.raised = "IntegrityError"
    /\ Cardinality({row \in db_files : row.path = last.file.path}) = 1

\* C10: set_tag attaches idempotently.  From every reachable store, for
\* every file id and name: after set_tag a tag of the name exists, one
\* created if and only if there was none, and the file has the tag; a second
\* set_tag changes nothing.  No association row is stored twice, and no file
\* has two association rows leading to tags of the same name.
C10_SetTagIdempotentAttach ==
    /\ \A a \in DOMAIN db_fht : db_fht[a] = 1
    /\ \A file_id \in 1..MaxFileId, tag \in TagNames :
        /\ Cardinality(Associations(file_id, tag)) <= 1
        /\ LET once  == set_tag(Tables, file_id, tag)
               twice == set_tag(once, file_id, tag)
               known == \E r \in db_tags : r.name = tag
           IN  /\ twice = once
               /\ known => once.tags = db_tags
               /\ ~known => \E r \in once.tags \ db_tags :
                                r.name = tag /\ once.tags = db_tags \cup {r}
               /\ \E a \in DOMAIN once.file_has_tag :
                    /\ a.file_id = file_id
                    /\ once.file_has_tag[a] = 1
                    /\ \E r \in once.tags : r.id = a.tag_id /\ r.name = tag
               /\ Associations(file_id, tag) # {} => once = Tables
    /\ last.op = "set_tag" => Cardinality(Associations(last.file_id, last.tag)) = 1

\* set_tag has been called for a file that had the tag already, while two
\* definitions of the tag's name exist
C10_Witness ==
    /\ last.op = "set_tag"
    /\ ~last.wrote
    /\ Cardinality({r \in db_tags : r.name = last.tag}) = 2
    /\ Cardinality(Associations(last.file_id, last.tag)) = 1

-----------------------------------------------------------------------------
(* The store: queries *)

\* COUNT over the rows of a table without key that are among Wanted
RECURSIVE Count(_, _)
Count(table, Wanted) ==
    IF Wanted \cap DOMAIN table = {}
    THEN 0
    ELSE LET row == CHOOSE r \in Wanted \cap DOMAIN table : TRUE
         IN  table[row] + Count(table, Wanted \ {row})

\* get_tags: SELECT name, COUNT(file_has_tag.tag_id) FROM tags LEFT JOIN
\* file_has_tag ... GROUP BY tags.id, one row per tag definition in the order
\* of the ids, made a dict: of two rows of one name the later one stays
get_tags(t) ==
    [tag \in {r.name : r \in t.tags} |->
        LET tag_id == Max({r.id : r \in {row \in t.tags : row.name = tag}})
        IN  Count(t.file_has_tag,
                  {a \in DOMAIN t.file_has_tag : a.tag_id = tag_id})]

\* get_files: SELECT id FROM files ORDER BY path, get_file for each id
RECURSIVE get_files_of(_, _)
get_files_of(t, ids) ==
    IF ids = {}
    THEN <<>>
    ELSE LET first == CHOOSE i \in ids : \A j \in ids \ {i} :
                          StrLess(get_file(t, i).path, get_file(t, j).path)
         IN  <<get_file(t, first)>> \o get_files_of(t, ids \ {first})

get_files(t) == get_files_of(t, {r.id : r \in t.files})

\* the names of the tags a file returned by get_file or get_files carries
StoredTagsInUse == UNION {get_file(Tables, r.id).tags : r \in db_files}

\* C11: remove_tag for a name without definition or for a file that does
\* not hold the tag, and delete_tag for a name without definition, raise
\* nothing and leave files, tags and associations as they were.
C11_AbsentDetachIsNoOp ==
    [][/\ (last'.op = "remove_tag" /\ Associations(last'.file_id, last'.tag) = {})
            => /\ last'.raised = "nothing"
               /\ UNCHANGED <<db_files, db_tags, db_fht>>
       /\ (last'.op = "delete_tag" /\ ~ \E r \in db_tags : r.name = last'.tag)
            => /\ last'.raised = "nothing"
               /\ UNCHANGED <<db_files, db_tags, db_fht>>]_vars

\* remove_tag has been called for a defined tag the file does not hold,
\* while other files hold it
C11_Witness ==
    /\ last.op = "remove_tag"
    /\ ~last.wrote
    /\ \E r \in db_tags : r.name = last.tag
    /\ Associations(last.file_id, last.tag) = {}
    /\ last.tag \in StoredTagsInUse

\* C12: after delete_tag(name) the store holds no definition of the name,
\* get_tags has no entry for it and no stored file carries it.
C12_DeletedTagIsGone ==
    last.op = "delete_tag"
        => /\ ~ \E r \in db_tags : r.name = last.tag
           /\ last.tag \notin DOMAIN get_tags(Tables)
           /\ last.tag \notin StoredTagsInUse

\* the number of stored files that carry the tag name
Holders(tag) == Cardinality({r \in db_files : tag \in get_file(Tables, r.id).tags})

\* C16: get_tags has an entry for every name that has a definition, also for
\* tags no file carries, and the count of each name is the number of stored
\* files that carry a tag of the name.
C16_TagCountsMatchAttachments ==
    /\ DOMAIN get_tags(Tables) = {r.name : r \in db_tags}
    /\ \A tag \in DOMAIN get_tags(Tables) : get_tags(Tables)[tag] = Holders(tag)

\* C19: get_file changes nothing in the store; for an id without file row
\* it raises, for an id with a row it returns the row's path, size, date,
\* duration and rating and exactly the names of the tags associated with
\* the file.
C19_GetFile ==
    [][last'.op = "get_file"
        => /\ UNCHANGED <<db_files, db_tags, db_fht>>
           /\ IF \E row \in db_files : row.id = last'.file_id
              THEN /\ last'.raised = "nothing"
                   /\ \E row \in db_files :
                        /\ row.id = last'.file_id
                        /\ last'.ret.path = row.path
                        /\ last'.ret.size = row.size
                        /\ last'.ret.date_modified = row.date_modified
                        /\ last'.ret.duration = row.duration
                        /\ last'.ret.rating = row.rating
                   /\ \A tag \in TagNames :
                        tag \in last'.ret.tags
                            <=> Associations(last'.file_id, tag) # {}
              ELSE last'.raised # "nothing"]_vars

\* get_file has returned a file with one tag while the store has another
\* file and another tag
C19_Witness ==
    /\ last.op = "get_file"
    /\ last.raised = "nothing"
    /\ Cardinality(last.ret.tags) = 1
    /\ Cardinality(db_files) = 2
    /\ \E r \in db_tags : r.name \notin last.ret.tags

\* the stored files the filter of the file view accepts for the whitelist
\* and the blacklist, the other criteria at their defaults, no file pinned
AcceptedInMemory(whitelist, blacklist) ==
    {file \in {get_file(Tables, r.id) : r \in db_files} :
        accepts(file, NoFile, re_compile(<<>>, FALSE),
                [FileFilter EXCEPT !.tags_whitelist = whitelist,
                                   !.tags_blacklist = blacklist])}

\* C17: get_files_with_tags(whitelist, blacklist) returns the stored files
\* that hold all tags of the whitelist and none of the blacklist: the files
\* the filter of the file view accepts for the same two tag sets.
C17_StoreQueryMatchesFilter ==
    last.op = "get_files_with_tags"
        => /\ last.raised = "nothing"
           /\ last.ret = AcceptedInMemory(last.whitelist.names, last.blacklist.names)

-----------------------------------------------------------------------------
(* The file view: replacing the criteria *)

-----------------------------------------------------------------------------
(* Database: the settings *)

\* dict[key] = value and REPLACE INTO a table with the key as primary key
Put(dict, key, value) ==
    [k \in DOMAIN dict \cup {key} |-> IF k = key THEN value ELSE dict[k]]

\* dict.pop(key, None) and DELETE ... WHERE key = ?
Drop(dict, key) == [k \in DOMAIN dict \ {key} |-> dict[k]]

\* the settings table, the cache and its flag as one value
Settings == [table |-> db_settings, settings |-> settings, loaded |-> settings_loaded]

_load_settings(s) ==
    IF ~s.loaded
    THEN [s EXCEPT !.settings = s.table, !.loaded = TRUE]
    ELSE s

get_setting(s, key, default) ==
    LET s1 == _load_settings(s)
    IN  [s |-> s1,
         ret |-> IF key \in DOMAIN s1.settings THEN s1.settings[key] ELSE default]

\* (a mutant: the value goes to the table only)
set_setting_uncached(s, key, value) == [s EXCEPT !.table = Put(@, key, value)]

set_setting(s, key, value) ==
    [s EXCEPT !.settings = Put(@, key, value), !.table = Put(@, key, value)]

remove_setting(s, key) ==
    [s EXCEPT !.settings = Drop(@, key), !.table = Drop(@, key)]

get_settings(s) ==
    LET s1 == _load_settings(s)
    IN  [s |-> s1, ret |-> s1.settings]

\* keys and values the application uses (all values are str(...))
SettingKeys == {"show_hidden_files", "column_visibility_Size", "column_visibility_Tags"}

SettingValues == {"True", "False"}

\* the call returns, the settings being s; written is the latest value
\* written under each key and not removed since
Returns(s, call) ==
    /\ db_settings' = s.table
    /\ settings' = s.settings
    /\ settings_loaded' = s.loaded
    /\ last' = call
    /\ UNCHANGED <<viewVars, sortVars, tagVars, listVars, objVars, scanVars,
                   db_files, db_tags, db_fht, seq_files, seq_tags, conn>>

\* Database.__init__ on a database file an earlier run may have written to
InitSettings ==
    /\ ViewIdle /\ SortIdle /\ TagsIdle /\ ElsewhereIdle
    /\ db_files = Created.files /\ db_tags = Created.tags
    /\ db_fht = Created.file_has_tag
    /\ seq_files = Created.seq_files /\ seq_tags = Created.seq_tags
    /\ conn = <<>>
    /\ db_settings \in {<<>>, Put(<<>>, "show_hidden_files", "True")}
    /\ settings = <<>>
    /\ settings_loaded = FALSE
    /\ last = [op |-> "none", written |-> db_settings]

GetSetting ==
    \E key \in SettingKeys, default \in SettingValues :
        LET r == get_setting(Settings, key, default)
        IN  Returns(r.s, [op |-> "get_setting", key |-> key, default |-> default,
                          ret |-> r.ret, written |-> last.written])

SetSetting ==
    \E key \in SettingKeys, value \in SettingValues :
        Returns(set_setting(Settings, key, value),
                [op |-> "set_setting", key |-> key, value |-> value,
                 written |-> Put(last.written, key, value)])

RemoveSetting ==
    \E key \in SettingKeys :
        Returns(remove_setting(Settings, key),
                [op |-> "remove_setting", key |-> key,
                 written |-> Drop(last.written, key)])

GetSettings ==
    LET r == get_settings(Settings)
    IN  Returns(r.s, [op |-> "get_settings", ret |-> r.ret,
                      written |-> last.written])

NextSettings ==
    \/ GetSetting
    \/ SetSetting
    \/ RemoveSetting
    \/ GetSettings

SpecSettings == InitSettings /\ [][NextSettings]_vars

\* C18: get_setting returns the value of the latest set_setting for the
\* key that no remove_setting followed, else the default; get_settings
\* returns all such values; once loaded, the cache equals the settings table.
C18_SettingsReadYourWrites ==
    /\ last.op = "get_setting"
        => last.ret = IF last.key \in DOMAIN last.written
                      THEN last.written[last.key]
                      ELSE last.default
    /\ last.op = "get_settings" => last.ret = last.written
    /\ settings_loaded => settings = db_settings

\* the first read came after a write and a removal: it returned the default
\* for the removed key while another key, written before the cache was
\* loaded, is in the cache
C18_Witness ==
    /\ last.op = "get_setting"
    /\ last.key \notin DOMAIN last.written
    /\ last.ret = last.default
    /\ settings # <<>>
    /\ settings_loaded

-----------------------------------------------------------------------------
(* MainWindow and TagListModel: the tags of the loaded files *)

\* The application state as one value, so that a handler is a chain of calls:
\* the window, the database, TagListModel.tags, .tag_names and .checked_tags,
\* and the selected file (MainWindow.selected_file and
\* TagListModel._current_file are set together; 0 is None).
\* checked_tags is a reference: to the tag set of the file of id "of", or,
\* for of = 0, to the set made by TagListModel.__init__, whose content is "own".
App == [w |-> Window, t |-> Tables, tags |-> tl_tags, tag_names |-> tag_names,
        checked |-> checked_tags, selected |-> selected_file,
        raised |-> "nothing"]

\* the loaded VideoFile object of the id
loaded(a, file_id) ==
    a.w.files[CHOOSE r \in 1..Len(a.w.files) : a.w.files[r].id = file_id]

\* file.tags is changed in place: every holder of the object sees it
with_tags(a, file_id, names) ==
    [a EXCEPT !.w.files = [r \in 1..Len(@) |->
                              IF @[r].id = file_id
                              THEN [@[r] EXCEPT !.tags = names] ELSE @[r]],
              !.w._current_file = IF @.id = file_id
                                  THEN [@ EXCEPT !.tags = names] ELSE @]

\* the set checked_tags refers to
checked_set(a) ==
    IF a.checked.of = 0 THEN a.checked.own ELSE loaded(a, a.checked.of).tags

\* checked_tags.add / checked_tags.remove
with_checked(a, names) ==
    IF a.checked.of = 0
    THEN [a EXCEPT !.checked.own = names]
    ELSE with_tags(a, a.checked.of, names)

\* (a mutant: the count of the tag stays as it is)
setData_uncounted(a, tag_name) ==
    IF a.selected = 0
    THEN [a EXCEPT !.raised = "AttributeError"]
    ELSE IF tag_name \notin checked_set(a)
         THEN [with_checked(a, checked_set(a) \cup {tag_name})
                  EXCEPT !.t = set_tag(@, a.selected, tag_name)]
         ELSE [with_checked(a, checked_set(a) \ {tag_name})
                  EXCEPT !.t = remove_tag(@, a.selected, tag_name)]

\* TagListModel.setData for the check box of a tag: the view passes the state
\* the box is toggled to.  The signal is emitted with self.current_file.id,
\* which raises AttributeError when no file is selected; what was changed
\* before stays changed.
setData(a, tag_name) ==
    IF tag_name \notin checked_set(a)
    THEN LET a1 == with_checked(a, checked_set(a) \cup {tag_name})
             a2 == [a1 EXCEPT !.tags[tag_name] = @ + 1]
         IN  IF a.selected = 0
             THEN [a2 EXCEPT !.raised = "AttributeError"]
             ELSE [a2 EXCEPT !.t = set_tag(@, a.selected, tag_name)]
    ELSE LET a1 == with_checked(a, checked_set(a) \ {tag_name})
             a2 == [a1 EXCEPT !.tags[tag_name] = @ - 1]
         IN  IF a.selected = 0
             THEN [a2 EXCEPT !.raised = "AttributeError"]
             ELSE [a2 EXCEPT !.t = remove_tag(@, a.selected, tag_name)]

\* TagListModel.set_tag
model_set_tag(a, tag_name) ==
    LET a1 == IF tag_name \notin DOMAIN a.tags
              THEN [a EXCEPT !.tags = Put(@, tag_name, 0),
                             !.tag_names = Append(@, tag_name)]
              ELSE a
    IN  IF a1.selected # 0 /\ tag_name \notin loaded(a1, a1.selected).tags
        THEN with_tags([a1 EXCEPT !.tags[tag_name] = @ + 1], a1.selected,
                       loaded(a1, a1.selected).tags \cup {tag_name})
        ELSE a1

\* MainWindow.add_tag
app_add_tag(a, tag) ==
    LET a1 == model_set_tag(a, tag)
    IN  IF a1.selected # 0
        THEN with_tags([a1 EXCEPT !.t = set_tag(@, a1.selected, tag)], a1.selected,
                       loaded(a1, a1.selected).tags \cup {tag})
        ELSE [a1 EXCEPT !.t = add_tag(@, tag)]

\* MainWindow.delete_tag, for a row of the tag list
app_delete_tag(a, tag_name) ==
    [a EXCEPT !.t = delete_tag(@, tag_name),
              !.tag_names = SelectSeq(@, LAMBDA n : n # tag_name),
              !.tags = Drop(@, tag_name)]

\* MainWindow.on_file_selected with a row of the file list, or with none
app_on_file_selected(a, file_id) ==
    IF file_id # 0
    THEN [a EXCEPT !.selected = file_id,
                   !.checked = [of |-> file_id, own |-> {}],
                   !.w = on_file_selected(@, loaded(a, file_id))]
    ELSE [a EXCEPT !.selected = 0, !.w = on_file_selected(@, NoFile)]

\* list(tags.keys()) for the dict get_tags returns: the names in the order
\* of their first rows, the rows being in the order of the ids
RECURSIVE keys_of(_)
keys_of(tag_rows) ==
    IF tag_rows = {}
    THEN <<>>
    ELSE LET first == CHOOSE r \in tag_rows : \A q \in tag_rows : r.id <= q.id
         IN  <<first.name>> \o keys_of({r \in tag_rows : r.name # first.name})

\* MainWindow.__init__ on the database t: load_tags, then load_files
started(t) ==
    [w |-> load_files(Constructed, get_files(t)), t |-> t,
     tags |-> get_tags(t), tag_names |-> keys_of(t.tags),
     checked |-> [of |-> 0, own |-> {}], selected |-> 0, raised |-> "nothing"]

\* the databases the application is started on: two scanned files; the
\* same with the tag A on the first file and a tag B no file carries
TwoFiles ==
    LET f1 == CHOOSE f \in ScannedFiles : f.path = Library[1].path /\ f.size = 100
        f2 == CHOOSE f \in ScannedFiles : f.path = Library[4].path /\ f.size = 2000
    IN  add_file(add_file(Created, f1, <<>>).t, f2, <<>>).t

Databases == {TwoFiles, add_tag(set_tag(TwoFiles, 1, "A"), "B")}

\* the handler has run: its result is the next state
AppBecomes(a, call) ==
    /\ files' = a.w.files
    /\ _filter' = a.w._filter
    /\ _re' = a.w._re
    /\ _current_file' = a.w._current_file
    /\ visible' = a.w.visible
    /\ date_min_edit' = a.w.date_min_edit
    /\ date_max_edit' = a.w.date_max_edit
    /\ db_files' = a.t.files
    /\ db_tags' = a.t.tags
    /\ db_fht' = a.t.file_has_tag
    /\ seq_files' = a.t.seq_files
    /\ seq_tags' = a.t.seq_tags
    /\ tl_tags' = a.tags
    /\ tag_names' = a.tag_names
    /\ checked_tags' = a.checked
    /\ selected_file' = a.selected
    /\ last' = call
    /\ UNCHANGED <<edits, sortVars, settingsVars, conn, listVars, objVars, scanVars>>

InitApp ==
    /\ \E t \in Databases :
        LET a == started(t)
        IN  /\ files = a.w.files /\ _filter = a.w._filter /\ _re = a.w._re
            /\ _current_file = a.w._current_file /\ visible = a.w.visible
            /\ date_min_edit = a.w.date_min_edit
            /\ date_max_edit = a.w.date_max_edit
            /\ db_files = t.files /\ db_tags = t.tags /\ db_fht = t.file_has_tag
            /\ seq_files = t.seq_files /\ seq_tags = t.seq_tags
            /\ tl_tags = a.tags /\ tag_names = a.tag_names
            /\ checked_tags = a.checked /\ selected_file = a.selected
    /\ edits = 0
    /\ SortIdle /\ SettingsIdle /\ ElsewhereIdle
    /\ conn = <<>>
    /\ last = [op |-> "none", streak |-> 0, count0 |-> 0]

\* the selected file carries no tag, in memory and in the store
Untagged(a) ==
    /\ a.selected # 0
    /\ loaded(a, a.selected).tags = {}
    /\ ~ \E row \in DOMAIN a.t.file_has_tag : row.file_id = a.selected

\* how far the toggle continues a run of check, uncheck, check of one tag
\* on one file that carried no tag when the run began
Streak(tag_name) ==
    IF /\ last.op = "setData" /\ last.tag = tag_name /\ last.file = selected_file
       /\ last.streak \in {1, 2} /\ selected_file # 0
    THEN [streak |-> last.streak + 1, count0 |-> last.count0]
    ELSE IF Untagged(App)
         THEN [streak |-> 1, count0 |-> tl_tags[tag_name]]
         ELSE [streak |-> 0, count0 |-> 0]

\* a row of the file list is selected, or the selection is cleared
AppSelectFile ==
    \E file_id \in {files[r].id : r \in visible} \cup {0} :
        /\ file_id # selected_file
        /\ AppBecomes(app_on_file_selected(App, file_id),
                      [op |-> "on_file_selected", file |-> file_id,
                       streak |-> 0, count0 |-> 0])

\* the check box of a row of the tag list is clicked
AppToggleTag ==
    \E i \in 1..Len(tag_names) :
        LET a == setData(App, tag_names[i])
        IN  /\ a.t.seq_tags <= MaxTagId
            /\ AppBecomes(a, [op |-> "setData", tag |-> tag_names[i],
                              file |-> selected_file, raised |-> a.raised,
                              streak |-> Streak(tag_names[i]).streak,
                              count0 |-> Streak(tag_names[i]).count0])

\* a name is entered in the add-tag field
AppAddTag ==
    \E tag \in TagNames :
        LET a == app_add_tag(App, tag)
        IN  /\ a.t.seq_tags <= MaxTagId
            /\ AppBecomes(a, [op |-> "add_tag", tag |-> tag, file |-> selected_file,
                              streak |-> 0, count0 |-> 0])

\* "Delete Tag" of the context menu of a row of the tag list
AppDeleteTag ==
    \E i \in 1..Len(tag_names) :
        AppBecomes(app_delete_tag(App, tag_names[i]),
                   [op |-> "delete_tag", tag |-> tag_names[i],
                    streak |-> 0, count0 |-> 0])

NextApp ==
    \/ AppSelectFile
    \/ AppToggleTag
    \/ AppAddTag
    \/ AppDeleteTag

SpecApp == InitApp /\ [][NextApp]_vars

\* the loaded files that carry the tag name
HoldersLoaded(tag) == {r \in Rows : tag \in files[r].tags}

\* C13: after a tag is deleted in the application no loaded file carries
\* it, TagListModel.tags has no entry for it, and a whitelist that contains
\* it leaves no file visible but the pinned one.
C13_DeletedTagLeavesMemory ==
    last.op = "delete_tag"
        => /\ HoldersLoaded(last.tag) = {}
           /\ last.tag \notin DOMAIN tl_tags
           /\ \A names \in {S \in SUBSET TagNames : last.tag \in S} :
                LET w == set_tags_whitelist(Window, names)
                IN  \A r \in w.visible : w.files[r] = w._current_file

\* the association rows of the store that join the file with tags of the name
Attachments(file_id, tag) ==
    Count(db_fht, {a \in DOMAIN db_fht :
                     /\ a.file_id = file_id
                     /\ \E r \in db_tags : r.id = a.tag_id /\ r.name = tag})

\* C14 as stated: after a tag was checked, unchecked and checked again for
\* a file that carried no tag, the file carries exactly that tag, the store
\* has one association row for it, and the count of the tag is what it was
\* before the three steps.
C14_CountUnchangedBySequence ==
    (last.op = "setData" /\ last.streak = 3)
        => /\ loaded(App, selected_file).tags = {last.tag}
           /\ Attachments(selected_file, last.tag) = 1
           /\ tl_tags[last.tag] = last.count0

\* C14 amended: ... and the count of the tag is one more than it was before
\* the three steps.
C14_CountRaisedByOne ==
    (last.op = "setData" /\ last.streak = 3)
        => /\ loaded(App, selected_file).tags = {last.tag}
           /\ Attachments(selected_file, last.tag) = 1
           /\ tl_tags[last.tag] = last.count0 + 1

\* a tag that another loaded file carries has been checked, unchecked and
\* checked again for a file that carried no tag
C14_Witness ==
    /\ last.op = "setData"
    /\ last.streak = 3
    /\ last.count0 > 0
    /\ Cardinality(HoldersLoaded(last.tag)) = 2

\* C15: the count TagListModel.tags holds for a name is the number of loaded
\* files that carry the name, and is never below 0.
C15_CountsMatchLoadedFiles ==
    \A tag \in DOMAIN tl_tags :
        /\ tl_tags[tag] = Cardinality(HoldersLoaded(tag))
        /\ tl_tags[tag] >= 0

-----------------------------------------------------------------------------
(* The pinned file and the rows the proxy model shows, checked under SpecView *)

\* C21: a change of the pinned file (the current_file setter) leaves the
\* criteria, the compiled pattern and the visible rows as they were right
\* before the change.
C21_PinChangeKeepsRows ==
    [][_current_file' # _current_file
        => /\ _filter' = _filter
           /\ _re' = _re
           /\ visible' = visible]_vars

\* the selection has been cleared while the view shows a row the criteria
\* reject: a row that stayed when the pinned file changed
C21_Witness ==
    /\ _current_file = NoFile
    /\ edits > 0
    /\ \E r \in visible : ~filterAcceptsRow(r)

\* C26: in every reachable state the visible rows are exactly the rows
\* filterAcceptsRow accepts under the current criteria and the current
\* pinned file.
C26_VisibleIsAccepted == visible = Accepted

-----------------------------------------------------------------------------
(* Referential integrity of the store, checked under SpecDb, where set_tag *)
(* is called with the ids of stored files                                  *)

\* C29: every row of file_has_tag refers to a row of files and a row of
\* tags that both exist.
C29_AssociationsRefer ==
    \A a \in DOMAIN db_fht :
        /\ \E f \in db_files : f.id = a.file_id
        /\ \E r \in db_tags : r.id = a.tag_id

\* a file has been removed while another file holds tags, and a tag has
\* been deleted or a file removed before (ids were given and are gone)
C29_Witness ==
    /\ last.op = "remove_file"
    /\ DOMAIN db_fht # {}
    /\ Cardinality(db_files) < seq_files
    /\ Cardinality(db_tags) < seq_tags

-----------------------------------------------------------------------------
(* The loaded files against the store, checked under SpecApp *)

\* the row of the store with the id of the loaded file
StoredRow(file) == CHOOSE row \in db_files : row.id = file.id

\* C23: every loaded file's tag set in memory is the set of tag names the
\* store associates with the file, and its rating in memory is the stored
\* rating.
C23_MemoryMatchesStore ==
    \A r \in Rows :
        /\ files[r].tags = tags_of(Tables, files[r].id)
        /\ files[r].rating = StoredRow(files[r]).rating

\* C30: with no file selected, a click on the check box of a tag changes no
\* loaded file's tag set, no count of TagListModel.tags and no association
\* row of the store.
C30_ToggleWithoutFileChangesNothing ==
    [][(selected_file = 0 /\ last'.op = "setData")
        => /\ files' = files
           /\ tl_tags' = tl_tags
           /\ db_fht' = db_fht]_vars

-----------------------------------------------------------------------------
(* FilterWidget with its two TagListWidgets: the filter setter and the     *)
(* setters of single tags                                                  *)

\* the most nested set_tag_in_whitelist / set_tag_in_blacklist calls one
\* handler is followed through
MaxCalls == 3

\* the FilterWidget connected to the proxy model, and the tags of its two
\* lists; calls counts the set_tag_in_... calls of the handler in progress,
\* unfinished tells that the handler was cut off at MaxCalls.  In last, was
\* tells whether the tag was in the other list when the call began.
Widget == [w |-> Window, white |-> tags_whitelist_widget,
           black |-> tags_blacklist_widget, calls |-> 0, unfinished |-> FALSE]

\* FilterWidget._filter.tags_whitelist or .tags_blacklist
list_of(fw, list) ==
    IF list = "white" THEN fw.w._filter.tags_whitelist ELSE fw.w._filter.tags_blacklist

RECURSIVE tags_setter(_, _, _, _)
RECURSIVE list_each(_, _, _, _, _, _)

\* TagListWidget.list_changed.emit(self.tags): connected to
\* FilterWidget.set_tags_whitelist or set_tags_blacklist
list_changed(fw, list, order) == tags_setter(fw, list, fw[list], order)

\* TagListWidget.add_tag
list_add_tag(fw, list, tag, order) ==
    IF tag \in fw[list]
    THEN fw
    ELSE list_changed([fw EXCEPT ![list] = @ \cup {tag}], list, order)

\* TagListWidget.remove_tag: _remove_tag_widget emits list_changed, then
\* remove_tag emits it again
list_remove_tag(fw, list, tag, order) ==
    IF tag \notin fw[list]
    THEN fw
    ELSE list_changed(list_changed([fw EXCEPT ![list] = @ \ {tag}], list, order),
                      list, order)

\* for tag in todo: self.remove_tag(tag) or self.add_tag(tag); todo is the
\* difference computed when the loop begins, order the order the set
\* iterates in
list_each(fw, list, todo, order, i, adding) ==
    IF i > Len(order)
    THEN fw
    ELSE LET fw1 == IF order[i] \notin todo THEN fw
                    ELSE IF adding THEN list_add_tag(fw, list, order[i], order)
                    ELSE list_remove_tag(fw, list, order[i], order)
         IN  list_each(fw1, list, todo, order, i + 1, adding)

\* TagListWidget.set_tags
list_set_tags(fw, list, tags, order) ==
    IF tags = fw[list]
    THEN fw
    ELSE LET fw1 == list_each(fw, list, fw[list] \ tags, order, 1, FALSE)
             fw2 == list_each(fw1, list, tags \ fw1[list], order, 1, TRUE)
         IN  list_changed(fw2, list, order)

\* FilterWidget.tags_whitelist and .tags_blacklist setters: the field of the
\* FileFilter object is assigned, the list widget is set, filter_changed is
\* emitted with the object
tags_setter(fw, list, tags, order) ==
    IF list_of(fw, list) # tags
    THEN LET fw1 == IF list = "white"
                    THEN [fw EXCEPT !.w._filter.tags_whitelist = tags]
                    ELSE [fw EXCEPT !.w._filter.tags_blacklist = tags]
             fw2 == list_set_tags(fw1, list, tags, order)
         IN  [fw2 EXCEPT !.w = proxy_set_filter(@, @._filter)]
    ELSE fw

\* (a mutant: the tag is not taken out of the other list)
set_tag_in_one_list(fw, tag, in_list, list, order) ==
    IF in_list # (tag \in list_of(fw, list))
    THEN IF in_list
         THEN tags_setter(fw, list, list_of(fw, list) \cup {tag}, order)
         ELSE tags_setter(fw, list, list_of(fw, list) \ {tag}, order)
    ELSE fw

\* FilterWidget.set_tag_in_whitelist (list = "white") and
\* set_tag_in_blacklist (list = "black"): putting a tag in one list calls
\* the other setter to take it out of the other list
RECURSIVE set_tag_in_list(_, _, _, _, _)
set_tag_in_list(fw, tag, in_list, list, order) ==
    IF fw.calls >= MaxCalls
    THEN [fw EXCEPT !.unfinished = TRUE]
    ELSE LET fw0 == [fw EXCEPT !.calls = @ + 1]
         IN  IF in_list # (tag \in list_of(fw0, list))
             THEN IF in_list
                  THEN set_tag_in_list(
                           tags_setter(fw0, list, list_of(fw0, list) \cup {tag}, order),
                           tag, FALSE, IF list = "white" THEN "black" ELSE "white", order)
                  ELSE tags_setter(fw0, list, list_of(fw0, list) \ {tag}, order)
             ELSE fw0

set_tag_in_whitelist(fw, tag, in_whitelist, order) ==
    set_tag_in_list(fw, tag, in_whitelist, "white", order)

set_tag_in_blacklist(fw, tag, in_blacklist, order) ==
    set_tag_in_list(fw, tag, in_blacklist, "black", order)

\* FilterWidget.filter setter: the fields in the order of the assignments;
\* f.rating[0] goes to max_rating and f.rating[1] to min_rating, and
\* name_regex_case_sensitive is not assigned
widget_filter(fw, f, order) ==
    LET w1  == set_name_regex(fw.w, f.name_regex)
        w2  == set_path(w1, f.path)
        w3  == set_max_rating(w2, f.rating[1])
        w4  == set_min_rating(w3, f.rating[2])
        fw5 == tags_setter([fw EXCEPT !.w = w4], "white", f.tags_whitelist, order)
        fw6 == tags_setter(fw5, "black", f.tags_blacklist, order)
        w7  == set_min_size(fw6.w, f.size[1])
        w8  == set_max_size(w7, f.size[2])
        w9  == set_min_date(w8, f.date[1])
    IN  [fw6 EXCEPT !.w = set_max_date(w9, f.date[2])]

\* the FileFilter values assigned to FilterWidget.filter
AssignedFilters ==
    {[FileFilter EXCEPT !.name_regex = p, !.name_regex_case_sensitive = c,
                        !.rating = r, !.tags_whitelist = wl, !.tags_blacklist = bl,
                        !.date = d] :
        p \in {<<>>, <<"b">>}, c \in BOOLEAN, r \in {<<0, 5>>, <<1, 4>>, <<3, 3>>},
        wl \in {{}, {"A"}}, bl \in {{}, {"B"}},
        d \in {<<datetime_min, datetime_max>>, <<12, 14>>}}

\* the handler has run: its result is the next state
WidgetBecomes(fw, call) ==
    /\ files' = fw.w.files
    /\ _filter' = fw.w._filter
    /\ _re' = fw.w._re
    /\ _current_file' = fw.w._current_file
    /\ visible' = fw.w.visible
    /\ date_min_edit' = fw.w.date_min_edit
    /\ date_max_edit' = fw.w.date_max_edit
    /\ tags_whitelist_widget' = fw.white
    /\ tags_blacklist_widget' = fw.black
    /\ last' = call
    /\ UNCHANGED <<edits, sortVars, settingsVars, tagVars, objVars, scanVars,
                   db_files, db_tags, db_fht, seq_files, seq_tags, conn>>

\* MainWindow.__init__ on an empty database: FilterWidget.__init__, then
\* load_files with no file
InitWidget ==
    /\ LET w == load_files(Constructed, <<>>)
       IN  /\ files = w.files /\ _filter = w._filter /\ _re = w._re
           /\ _current_file = w._current_file /\ visible = w.visible
           /\ date_min_edit = w.date_min_edit /\ date_max_edit = w.date_max_edit
    /\ edits = 0
    /\ SortIdle /\ StoreIdle /\ SettingsIdle /\ TagsIdle /\ ListsIdle
    /\ ObjectsIdle /\ ScanIdle

AssignFilter ==
    \E f \in AssignedFilters, order \in Orders(TagNames) :
        LET fw == widget_filter(Widget, f, order)
        IN  WidgetBecomes(fw, [op |-> "filter", f |-> f, unfinished |-> fw.unfinished,
                               calls |-> fw.calls])

SetTagInWhitelist ==
    \E tag \in TagNames, in_whitelist \in BOOLEAN, order \in Orders(TagNames) :
        LET fw == set_tag_in_whitelist(Widget, tag, in_whitelist, order)
        IN  WidgetBecomes(fw, [op |-> "set_tag_in_whitelist", tag |-> tag,
                               was |-> tag \in _filter.tags_blacklist,
                               unfinished |-> fw.unfinished, calls |-> fw.calls])

SetTagInBlacklist ==
    \E tag \in TagNames, in_blacklist \in BOOLEAN, order \in Orders(TagNames) :
        LET fw == set_tag_in_blacklist(Widget, tag, in_blacklist, order)
        IN  WidgetBecomes(fw, [op |-> "set_tag_in_blacklist", tag |-> tag,
                               was |-> tag \in _filter.tags_whitelist,
                               unfinished |-> fw.unfinished, calls |-> fw.calls])

NextWidget ==
    \/ AssignFilter
    \/ SetTagInWhitelist
    \/ SetTagInBlacklist

SpecWidget == InitWidget /\ [][NextWidget]_vars

\* C27: after FilterWidget.filter was assigned a FileFilter whose rating
\* range has lo <= hi, FilterWidget.filter is equal to it in every field.
C27_FilterRoundTrip ==
    (last.op = "filter" /\ last.f.rating[1] <= last.f.rating[2]) => _filter = last.f

\* C28: no tag is in the whitelist and in the blacklist at once, the list
\* widgets show the lists of the filter, and every set_tag_in_whitelist and
\* set_tag_in_blacklist call returns (after at most two nested calls).
C28_ListsDisjoint ==
    /\ _filter.tags_whitelist \cap _filter.tags_blacklist = {}
    /\ tags_whitelist_widget = _filter.tags_whitelist
    /\ tags_blacklist_widget = _filter.tags_blacklist
    /\ last.op \in {"set_tag_in_whitelist", "set_tag_in_blacklist"}
        => ~last.unfinished /\ last.calls <= 2

\* a tag of the whitelist has been put in the blacklist: the nested call
\* took it out of the whitelist, which keeps another tag
C28_Witness ==
    /\ last.op = "set_tag_in_blacklist"
    /\ last.calls = 2
    /\ last.was
    /\ last.tag \in _filter.tags_blacklist
    /\ _filter.tags_whitelist # {}

-----------------------------------------------------------------------------
(* The FileFilter as an object: what FilterWidget hands the proxy model    *)
(* with filter_changed is a reference                                      *)

\* the notifications the model follows
MaxNotifications == 3

\* the objects and the two attributes that refer to them; a reference is the
\* position of the object in objects
Heap == [objects |-> objects, fw |-> fw_filter, px |-> px_filter, received |-> received]

\* FileFilter(): a new object with the defaults
new_FileFilter(h) == [h EXCEPT !.objects = Append(@, FileFilter)]

\* MainWindow.__init__: FileSortFilterProxyModel() and FilterWidget(...) make
\* one FileFilter each
constructed_filters ==
    LET h1 == new_FileFilter([objects |-> <<>>, fw |-> 0, px |-> 0, received |-> <<>>])
        h2 == [h1 EXCEPT !.px = Len(h1.objects)]
        h3 == new_FileFilter(h2)
    IN  [h3 EXCEPT !.fw = Len(h3.objects)]

\* self.filter_changed.emit(self._filter), connected to the proxy model's
\* set_filter: self._filter = f.  received keeps the reference handed over
\* and the fields the object had at that moment.
emit_filter_changed(h) ==
    [h EXCEPT !.px = h.fw,
              !.received = Append(@, [ref |-> h.fw, fields |-> h.objects[h.fw]])]

\* FilterWidget.name_regex setter: self._filter.name_regex = name_regex
assign_name_regex(h, name_regex) ==
    IF name_regex # h.objects[h.fw].name_regex
    THEN emit_filter_changed([h EXCEPT !.objects[h.fw].name_regex = name_regex])
    ELSE h

\* FilterWidget.min_rating setter: the attribute rating gets a new tuple
assign_min_rating(h, min_rating) ==
    IF min_rating # h.objects[h.fw].rating[1]
    THEN emit_filter_changed(
             [h EXCEPT !.objects[h.fw].rating = <<min_rating, @[2]>>])
    ELSE h

\* FilterWidget.max_rating setter
assign_max_rating(h, max_rating) ==
    IF max_rating # h.objects[h.fw].rating[2]
    THEN emit_filter_changed(
             [h EXCEPT !.objects[h.fw].rating = <<@[1], max_rating>>])
    ELSE h

\* FilterWidget.tags_whitelist setter: the attribute gets set(tags_whitelist)
assign_tags_whitelist(h, tags_whitelist) ==
    IF h.objects[h.fw].tags_whitelist # tags_whitelist
    THEN emit_filter_changed(
             [h EXCEPT !.objects[h.fw].tags_whitelist = tags_whitelist])
    ELSE h

ObjBecomes(h) ==
    /\ objects' = h.objects
    /\ fw_filter' = h.fw
    /\ px_filter' = h.px
    /\ received' = h.received
    /\ Len(h.received) <= MaxNotifications
    /\ UNCHANGED <<viewVars, sortVars, storeVars, settingsVars, tagVars, listVars,
                   scanVars>>

InitObjects ==
    /\ ViewIdle /\ SortIdle /\ StoreIdle /\ SettingsIdle /\ TagsIdle /\ ListsIdle
    /\ ScanIdle
    /\ objects = constructed_filters.objects
    /\ fw_filter = constructed_filters.fw
    /\ px_filter = constructed_filters.px
    /\ received = constructed_filters.received

ObjEditNameRegex == \E p \in NamePatterns : ObjBecomes(assign_name_regex(Heap, p))

ObjEditMinRating == \E r \in 0..2 : ObjBecomes(assign_min_rating(Heap, r))

ObjEditMaxRating == \E r \in 3..5 : ObjBecomes(assign_max_rating(Heap, r))

ObjEditWhitelist == \E t \in Whitelists : ObjBecomes(assign_tags_whitelist(Heap, t))

NextObjects ==
    \/ ObjEditNameRegex
    \/ ObjEditMinRating
    \/ ObjEditMaxRating
    \/ ObjEditWhitelist

SpecObjects == InitObjects /\ [][NextObjects]_vars

\* C22: every notification hands over an object no earlier notification
\* handed over, and the object of an earlier notification still has the
\* fields it was received with.
C22_NewValueEachEdit ==
    \A i \in 1..Len(received) :
        /\ \A j \in 1..Len(received) : i < j => received[i].ref # received[j].ref
        /\ objects[received[i].ref] = received[i].fields

-----------------------------------------------------------------------------
(* AddFilesDialog: the scan worker in its thread and the dialog in the     *)
(* main thread.  A signal the worker emits is queued for the dialog, which *)
(* lives in the main thread, and delivered when the main thread is back in *)
(* its event loop.                                                         *)

\* the files of a scanned directory tree
MaxEntries == 2

\* the scans started in one dialog
MaxScans == 2

\* what os.walk yields, file by file: a file the filter matches ("video"),
\* one it does not match ("other"), and a matching file whose
\* resolve_symlink raises (a symlink loop: RecursionError, caught)
EntryKinds == {"video", "other", "loop"}

Directories ==
    UNION {{[k \in 1..n |-> [kind |-> kinds[k], path |-> k]] : kinds \in [1..n -> EntryKinds]} :
              n \in 0..MaxEntries}

Scan == [worker |-> scan_worker, thread |-> scan_worker_thread, posted |-> posted,
         dialog |-> dialog]

\* Signal.emit in the worker thread: an event for the dialog is queued
emit(s, signal, path) ==
    LET n == [signal |-> signal, path |-> path, run |-> s.worker.run]
    IN  [s EXCEPT !.worker.emitted = Append(@, n), !.posted = Append(@, n)]

\* QThread.started -> ScanWorker.run: self.scan() is entered
run_begin(s) == [s EXCEPT !.worker.pc = "scan"]

\* ScanWorker.scan at the head of the loops: the next file, and the test of
\* self.abort_scan; return when the walk is over or the flag is set
scan_next(s) ==
    IF s.worker.i > Len(s.worker.entries)
    THEN [s EXCEPT !.worker.pc = "finish"]
    ELSE IF s.worker.abort_scan
         THEN [s EXCEPT !.worker.pc = "finish",
                        !.worker.observed_at = Len(s.worker.emitted)]
         ELSE [s EXCEPT !.worker.pc = "entry"]

\* ScanWorker.scan for the file at hand: endswith, resolve_symlink,
\* file_found.emit
scan_entry(s) ==
    LET file == s.worker.entries[s.worker.i]
        s1   == [s EXCEPT !.worker.i = @ + 1, !.worker.pc = "scan"]
    IN  IF file.kind = "video" THEN emit(s1, "file_found", file.path) ELSE s1

\* (a mutant: an aborted scan ends without the finished signal)
run_end_unless_aborted(s) ==
    IF s.worker.observed_at # None
    THEN [s EXCEPT !.worker.pc = "returned"]
    ELSE [emit(s, "finished", 0) EXCEPT !.worker.pc = "returned"]

\* ScanWorker.run after scan(): self.finished.emit()
run_end(s) == [emit(s, "finished", 0) EXCEPT !.worker.pc = "returned"]

\* QThread: run() has returned and quit() was called: the thread ends
thread_exit(s) == [s EXCEPT !.thread.running = FALSE]

\* AddFilesDialog.scan_directory
scan_directory(s, entries) ==
    [s EXCEPT !.dialog.scan_directory_button = FALSE,
              !.dialog.abort_scan_button = TRUE,
              !.dialog.accept_button = FALSE,
              !.dialog.status_label = "Scanning directory...",
              !.dialog.scans = @ + 1,
              !.worker = [run |-> s.dialog.scans + 1, entries |-> entries, i |-> 1,
                          abort_scan |-> FALSE, pc |-> "queued", emitted |-> <<>>,
                          observed_at |-> None],
              !.thread = [running |-> TRUE, quit |-> FALSE]]

\* the QThread of the scan before is dropped while it runs (it was never
\* told to quit): Qt ends the process
destroyed_while_running(s) ==
    [s EXCEPT !.dialog.pc = "crashed", !.worker = NoWorker, !.thread = NoThread,
              !.posted = <<>>]

\* AddFilesDialog.on_file_found
on_file_found(s, file_path) ==
    [s EXCEPT !.dialog.found_files = @ \cup {file_path},
              !.dialog.status_label = "Found files"]

\* AddFilesDialog.on_finished
on_finished(s) ==
    [s EXCEPT !.dialog.status_label = "files found",
              !.dialog.scan_directory_button = TRUE,
              !.dialog.abort_scan_button = FALSE,
              !.dialog.accept_button = TRUE]

\* the main thread's event loop delivers the oldest queued signal
deliver(s) ==
    LET n  == Head(s.posted)
        s1 == [s EXCEPT !.posted = Tail(@),
                        !.dialog.late = @ \/ n.run = s.dialog.aborted]
    IN  IF n.signal = "file_found" THEN on_file_found(s1, n.path) ELSE on_finished(s1)

\* AddFilesDialog.abort_scan up to scan_worker_thread.wait()
abort_scan_begin(s) ==
    [s EXCEPT !.worker.abort_scan = TRUE, !.thread.quit = TRUE, !.dialog.pc = "wait"]

\* AddFilesDialog.abort_scan from the return of wait() on
abort_scan_end(s) ==
    [s EXCEPT !.dialog.status_label = "Scan aborted",
              !.dialog.pc = "idle",
              !.dialog.aborted = s.worker.run,
              !.dialog.terminated = @ /\ ~s.thread.running]

ScanBecomes(s) ==
    /\ scan_worker' = s.worker
    /\ scan_worker_thread' = s.thread
    /\ posted' = s.posted
    /\ dialog' = s.dialog
    /\ UNCHANGED <<viewVars, sortVars, storeVars, settingsVars, tagVars, listVars,
                   objVars>>

InitScan ==
    /\ ViewIdle /\ SortIdle /\ StoreIdle /\ SettingsIdle /\ TagsIdle /\ ListsIdle
    /\ ObjectsIdle
    /\ ScanIdle

\* "Scan Directory" is clicked
ScanDirectory ==
    \E entries \in Directories :
        /\ dialog.pc = "idle"
        /\ dialog.scan_directory_button
        /\ dialog.scans < MaxScans
        /\ ScanBecomes(scan_directory(Scan, entries))

\* "Scan Directory" is clicked after a scan that ran to its end: the
\* assignment of the new QThread drops the one still running, which the
\* process may not survive
ScanDirectoryDropsThread ==
    /\ dialog.pc = "idle"
    /\ dialog.scan_directory_button
    /\ dialog.scans < MaxScans
    /\ scan_worker_thread.running
    /\ ScanBecomes(destroyed_while_running(Scan))

\* "Abort Scan" is clicked
AbortScan ==
    /\ dialog.pc = "idle"
    /\ dialog.abort_scan_button
    /\ ScanBecomes(abort_scan_begin(Scan))

\* wait() returns: the thread has ended
AbortScanReturns ==
    /\ dialog.pc = "wait"
    /\ ~scan_worker_thread.running
    /\ ScanBecomes(abort_scan_end(Scan))

\* the main thread is in its event loop and a signal is queued
Deliver ==
    /\ dialog.pc = "idle"
    /\ posted # <<>>
    /\ ScanBecomes(deliver(Scan))

WorkerRun ==
    /\ scan_worker.pc = "queued"
    /\ ScanBecomes(run_begin(Scan))

WorkerNext ==
    /\ scan_worker.pc = "scan"
    /\ ScanBecomes(scan_next(Scan))

WorkerEntry ==
    /\ scan_worker.pc = "entry"
    /\ ScanBecomes(scan_entry(Scan))

WorkerFinish ==
    /\ scan_worker.pc = "finish"
    /\ ScanBecomes(run_end(Scan))

ThreadExit ==
    /\ scan_worker.pc = "returned"
    /\ scan_worker_thread.running
    /\ scan_worker_thread.quit
    /\ ScanBecomes(thread_exit(Scan))

WorkerStep ==
    \/ WorkerRun
    \/ WorkerNext
    \/ WorkerEntry
    \/ WorkerFinish

NextScan ==
    \/ ScanDirectory
    \/ ScanDirectoryDropsThread
    \/ AbortScan
    \/ AbortScanReturns
    \/ Deliver
    \/ WorkerStep
    \/ ThreadExit

SpecScan == InitScan /\ [][NextScan]_vars

\* the worker thread is scheduled as long as it has a step to take
SpecScanFair == SpecScan /\ WF_vars(WorkerStep)

\* the file_found notifications of the files among the first n of the walk
\* that match and resolve, in the order of the walk
Discovered(n) ==
    LET found == SelectSeq(SubSeq(scan_worker.entries, 1, n),
                           LAMBDA file : file.kind = "video")
    IN  [k \in 1..Len(found) |->
            [signal |-> "file_found", path |-> found[k].path, run |-> scan_worker.run]]

\* the run has emitted one file_found for each discovered file it went
\* past and, once it has returned, one finished after them
RunNotifications ==
    /\ scan_worker.pc \in {"queued", "scan", "entry", "finish"}
        => scan_worker.emitted = Discovered(scan_worker.i - 1)
    /\ scan_worker.pc = "returned"
        => scan_worker.emitted =
              Append(Discovered(scan_worker.i - 1),
                     [signal |-> "finished", path |-> 0, run |-> scan_worker.run])

\* C24: each run of the scan worker emits one file_found notification for
\* each discovered file (a matching file whose path resolved), then exactly
\* one finished notification, which is its last; every run gets there,
\* aborted or not.
C24_OneFinishedLast ==
    /\ []RunNotifications
    /\ (scan_worker.pc \in {"queued", "scan", "entry", "finish"})
           ~> (scan_worker.pc = "returned")

\* an aborted run has returned: it saw the flag with files left to visit,
\* after a file_found, and finished is its last notification
C24_Witness ==
    /\ scan_worker.pc = "returned"
    /\ scan_worker.observed_at # None
    /\ scan_worker.observed_at > 0
    /\ scan_worker.i <= Len(scan_worker.entries)

\* C25: after the worker has seen the abort flag it emits finished only;
\* abort_scan returns with the thread ended; no notification of the
\* aborted run is delivered to the dialog after abort_scan has returned.
C25_NothingAfterAbort ==
    /\ scan_worker.observed_at # None
        => \A k \in (scan_worker.observed_at + 1)..Len(scan_worker.emitted) :
                scan_worker.emitted[k].signal = "finished"
    /\ dialog.terminated
    /\ ~dialog.late

====
